---- MODULE Spec2Model ----
\* Model of the support chatbot's conversation store (services/chat) and of
\* the browsing fetch core (services/browsing).
EXTENDS Integers, Sequences, FiniteSets, TLC

\* ---------------------------------------------------------------------------
\* Bounds of the model
\* ---------------------------------------------------------------------------
\* appends performed on top of the initial context
MaxAppends == 2
\* clock advances in the conversation-store specification
MaxStoreTicks == 2
\* non-system messages appended before the system messages of the initial context
MaxLead == 1
\* room left in the initial context, when it is not empty
MaxRoom == 1

\* ---------------------------------------------------------------------------
\* Program constants
\* ---------------------------------------------------------------------------
MAX_CONTEXT_SIZE == 20
CONTEXT_EXPIRY == 24 * 60 * 60 * 1000

\* optional values: absent is the empty sequence, present a one-element one
None == << >>
Some(x) == << x >>

Roles == {"user", "assistant", "system"}

\* message texts the model submits
Contents == {"hello", "my laptop is broken, order #12345"}

\* what the user types in a chat turn: a plain question, a question the
\* automated responses answer, a general look-up and an Amazon look-up
TurnContents ==
  {"hello", "my laptop is broken, order #12345", "what is a kettle",
   "search amazon for kettle"}

\* `https://www.amazon.com/s?k=${encodeURIComponent(query)}`
SearchUrlText(query) == "https://www.amazon.com/s?k=" \o query

\* the product searchProducts always reports, as handleAmazonQuery formats it
ProductInfoText(query) ==
  "Amazon Product Information:\nTitle: Example Smartphone XYZ\nPrice: $599.99\n"
  \o "Rating: 4.5 out of 5 (1250 reviews)\n\nKey Features:\n"
  \o "- 6.7-inch Super AMOLED display\n- 128GB storage\n- 5000mAh battery\n"
  \o "- Quad camera system\n\nDescription: A powerful smartphone with advanced features\n"
  \o "\nAmazon URL: " \o SearchUrlText(query) \o "\nProduct ID (ASIN): B08L5TNJHG\n"

\* message.content + '\n\n[RETRIEVED DATA]: ' + info
Enhanced(content, info) == content \o "\n\n[RETRIEVED DATA]: " \o info

\* the outgoing messages that carry the product information
ProductInfoContents ==
  { Enhanced(c, ProductInfoText("kettle")) : c \in TurnContents }

\* content.includes(product) over productCategories, in list order
FoundProducts(content) ==
  IF content = "my laptop is broken, order #12345" THEN << "laptop" >>
  ELSE IF content \in ProductInfoContents THEN << "smartphone", "camera" >>
  ELSE << >>

\* content.match(order regex)[1], when it matches
FoundOrders(content) ==
  IF content = "my laptop is broken, order #12345" THEN << "12345" >> ELSE << >>

\* content.includes(topic) over supportTopics, in list order
FoundTopics(content) ==
  IF content = "my laptop is broken, order #12345" THEN << "broken" >> ELSE << >>

\* array.filter((item, index, array) => array.indexOf(item) === index)
RECURSIVE Dedup(_)
Dedup(s) ==
  IF s = << >> THEN << >>
  ELSE LET init == Dedup(SubSeq(s, 1, Len(s) - 1))
           last == s[Len(s)]
       IN IF \E i \in 1..Len(init) : init[i] = last THEN init
          ELSE Append(init, last)

\* Array.prototype.slice(start) of JavaScript
JsSlice(s, start) ==
  LET len == Len(s)
      from == IF start < 0
              THEN (IF len + start > 0 THEN len + start ELSE 0)
              ELSE (IF start < len THEN start ELSE len)
  IN SubSeq(s, from + 1, len)

IsSystem(m) == m.role = "system"
NotSystem(m) == m.role # "system"

\* a trim that treats system messages like any other message
TrimPlainWindow(msgs) == JsSlice(msgs, 0 - MAX_CONTEXT_SIZE)

\* the trim of addMessage: system messages, then the most recent others
TrimMessages(msgs) ==
  LET systemMessages == SelectSeq(msgs, IsSystem)
      recentMessages == JsSlice(SelectSeq(msgs, NotSystem),
                                (0 - MAX_CONTEXT_SIZE) + Len(systemMessages))
  IN systemMessages \o recentMessages

\* updateContextMetadata: only user messages are scanned
UpdateContextMetadata(md, message) ==
  IF message.role # "user" THEN md
  ELSE [md EXCEPT
          !.productInterests =
             IF FoundProducts(message.content) # << >>
             THEN Dedup(@ \o FoundProducts(message.content)) ELSE @,
          !.orderReferences =
             IF FoundOrders(message.content) # << >>
             THEN Dedup(@ \o FoundOrders(message.content)) ELSE @,
          !.supportTopics =
             IF FoundTopics(message.content) # << >>
             THEN Dedup(@ \o FoundTopics(message.content)) ELSE @]

EmptyMetadata(t) ==
  [lastUpdated |-> t, productInterests |-> << >>,
   orderReferences |-> << >>, supportTopics |-> << >>]

\* ---------------------------------------------------------------------------
\* State
\* ---------------------------------------------------------------------------
VARIABLES
  now,        \* Date.now(), in milliseconds
  storage,    \* localStorage[STORAGE_KEY]: None or Some(context)
  nextId,     \* identity given to the next appended message
  appends,    \* appends performed so far
  ticks,      \* clock advances so far
  lastOp      \* the last store operation and what it returned

storeVars == << storage, nextId, appends, lastOp >>

\* the record an expired read forgets to remove
LoadContextKeepExpired(st, t) ==
  IF st = None THEN [result |-> None, storage |-> st]
  ELSE IF t - st[1].metadata.lastUpdated > CONTEXT_EXPIRY
       THEN [result |-> None, storage |-> st]
       ELSE [result |-> st, storage |-> st]

\* loadContext: the context read, and the record left in localStorage
LoadContext(st, t) ==
  IF st = None THEN [result |-> None, storage |-> None]
  ELSE IF t - st[1].metadata.lastUpdated > CONTEXT_EXPIRY
       THEN [result |-> None, storage |-> None]
       ELSE [result |-> st, storage |-> st]

\* an append that leaves lastUpdated as it found it
AddMessageResultKeepsStamp(st, t, message) ==
  LET loaded  == LoadContext(st, t).result
      context == IF loaded # None THEN loaded[1]
                 ELSE [messages |-> << >>, metadata |-> EmptyMetadata(t)]
      pushed  == Append(context.messages, message)
      trimmed == IF Len(pushed) > MAX_CONTEXT_SIZE THEN TrimMessages(pushed)
                 ELSE pushed
  IN [messages |-> trimmed,
      metadata |-> UpdateContextMetadata(context.metadata, message)]

\* an append that goes on from the stored context whatever its age
AddMessageResultIgnoresExpiry(st, t, message) ==
  LET context == IF st # None THEN st[1]
                 ELSE [messages |-> << >>, metadata |-> EmptyMetadata(t)]
      pushed  == Append(context.messages, message)
      trimmed == IF Len(pushed) > MAX_CONTEXT_SIZE THEN TrimMessages(pushed)
                 ELSE pushed
  IN [messages |-> trimmed,
      metadata |-> UpdateContextMetadata(
                     [context.metadata EXCEPT !.lastUpdated = t], message)]

\* the context addMessage builds and saves
AddMessageResult(st, t, message) ==
  LET loaded  == LoadContext(st, t).result
      context == IF loaded # None THEN loaded[1]
                 ELSE [messages |-> << >>, metadata |-> EmptyMetadata(t)]
      pushed  == Append(context.messages, message)
      trimmed == IF Len(pushed) > MAX_CONTEXT_SIZE THEN TrimMessages(pushed)
                 ELSE pushed
  IN [messages |-> trimmed,
      metadata |-> UpdateContextMetadata(
                     [context.metadata EXCEPT !.lastUpdated = t], message)]

NoOp == [op |-> "none"]

\* chatContextManager.getContext
GetContext ==
  /\ LET r == LoadContext(storage, now)
     IN /\ storage' = r.storage
        /\ lastOp' = [op |-> "getContext",
                      wasExpired |-> /\ storage # None
                                     /\ now - storage[1].metadata.lastUpdated
                                          > CONTEXT_EXPIRY,
                      afterExpiredRead |->
                         /\ lastOp.op = "getContext"
                         /\ (lastOp.wasExpired \/ lastOp.afterExpiredRead),
                      result |-> r.result]
  /\ UNCHANGED << now, nextId, appends, ticks >>

\* chatContextManager.addMessage
AddMessage ==
  /\ appends < MaxAppends
  /\ \E role \in Roles, content \in Contents :
       LET message == [role |-> role, content |-> content,
                       timestamp |-> now, id |-> nextId]
           loaded  == LoadContext(storage, now).result
           before  == IF loaded # None THEN loaded[1].messages ELSE << >>
           ctx     == AddMessageResult(storage, now, message)
       IN /\ storage' = Some(ctx)
          /\ lastOp' = [op |-> "addMessage",
                        message |-> message,
                        before |-> before,
                        trimmed |-> Len(before) + 1 > MAX_CONTEXT_SIZE,
                        wasExpired |-> /\ storage # None
                                       /\ now - storage[1].metadata.lastUpdated
                                            > CONTEXT_EXPIRY,
                        stale |-> storage,
                        result |-> ctx]
  /\ nextId' = nextId + 1
  /\ appends' = appends + 1
  /\ UNCHANGED << now, ticks >>

\* chatContextManager.clearContext
ClearContext ==
  /\ storage # None
  /\ storage' = None
  /\ lastOp' = [op |-> "clearContext"]
  /\ UNCHANGED << now, nextId, appends, ticks >>

\* the clock advances by one millisecond or by the expiry period
StoreTick ==
  /\ ticks < MaxStoreTicks
  /\ \E d \in {1, CONTEXT_EXPIRY} : now' = now + d
  /\ ticks' = ticks + 1
  /\ UNCHANGED storeVars

\* ===========================================================================
\* Fetch core (services/browsing)
\* ===========================================================================

\* ---------------------------------------------------------------------------
\* Bounds of the fetch model
\* ---------------------------------------------------------------------------
\* browseUrl calls that may be in progress at the same time
NumCallers == 1
\* browseUrl calls started in one behaviour
MaxFetches == 2
\* clock advances in the fetch specification
MaxFetchTicks == 2
\* requests to amazon.com admitted and completed before the behaviour starts
MaxPrior == 4
\* browseUrl calls that overlap in the specification of concurrent fetches
MaxOverlap == 2

\* ---------------------------------------------------------------------------
\* Program constants
\* ---------------------------------------------------------------------------
MAX_RETRIES == 3
BASE_RETRY_DELAY == 1000
REQUEST_TIMEOUT_MS == 15000
\* the 60000 of canMakeRequest
OneMinute == 60000
\* the default cache time of the browsing types, in seconds
DEFAULT_CACHE_TIME == 3600

\* host names and domains are sequences of labels and dots
AmazonCom == << "amazon", ".", "com" >>
BestbuyCom == << "bestbuy", ".", "com" >>
SupportAppleCom == << "support", ".", "apple", ".", "com" >>
SamsungCom == << "samsung", ".", "com" >>
WikihowCom == << "wikihow", ".", "com" >>

ALLOWED_DOMAINS ==
  << [domain |-> AmazonCom, allowSubdomains |-> TRUE,
      extractionTypes |-> << "product", "review" >>, maxRequestsPerMinute |-> 5],
     [domain |-> BestbuyCom, allowSubdomains |-> TRUE,
      extractionTypes |-> << "product" >>, maxRequestsPerMinute |-> 5],
     [domain |-> SupportAppleCom, allowSubdomains |-> FALSE,
      extractionTypes |-> << "article" >>, maxRequestsPerMinute |-> 10],
     [domain |-> SamsungCom, allowSubdomains |-> TRUE,
      extractionTypes |-> << "product", "article" >>, maxRequestsPerMinute |-> 10],
     [domain |-> WikihowCom, allowSubdomains |-> FALSE,
      extractionTypes |-> << "article" >>, maxRequestsPerMinute |-> 10] >>

DomainNames == { ALLOWED_DOMAINS[i].domain : i \in 1..Len(ALLOWED_DOMAINS) }

\* the URL strings the model submits, with what new URL(text) makes of them
Urls ==
  { [text |-> "https://www.amazon.com/dp/B01", parses |-> TRUE,
     protocol |-> "https:", hostname |-> << "www", ".", "amazon", ".", "com" >>],
    [text |-> "https://support.apple.com/kb", parses |-> TRUE,
     protocol |-> "https:", hostname |-> SupportAppleCom],
    [text |-> "ftp://amazon.com/file", parses |-> TRUE,
     protocol |-> "ftp:", hostname |-> AmazonCom],
    [text |-> "https://example.org/", parses |-> TRUE,
     protocol |-> "https:", hostname |-> << "example", ".", "org" >>],
    [text |-> "https://notamazon.com/", parses |-> TRUE,
     protocol |-> "https:", hostname |-> << "not", "amazon", ".", "com" >>],
    [text |-> "https://help.support.apple.com/kb", parses |-> TRUE,
     protocol |-> "https:",
     hostname |-> << "help", ".", "support", ".", "apple", ".", "com" >>],
    [text |-> "not a url", parses |-> FALSE,
     protocol |-> "", hostname |-> << >>] }

ExtractionTypes == {"full", "product", "article", "review"}
\* request.extractionType: omitted, or one of the types the model submits
RequestedTypes == {None, Some("product"), Some("article")}
\* request.cacheTime in seconds: omitted, or given
RequestedCacheTimes == {None, Some(1)}

\* the requests the model submits: the product page with every choice of
\* type and cache time, the other URLs with the defaults
Requests ==
  { r \in [url : Urls, extractionType : RequestedTypes,
           cacheTime : RequestedCacheTimes] :
      \/ r.url.text = "https://www.amazon.com/dp/B01"
      \/ (r.extractionType = None /\ r.cacheTime = None) }

\* String.prototype.endsWith
EndsWith(s, suffix) ==
  /\ Len(suffix) <= Len(s)
  /\ SubSeq(s, Len(s) - Len(suffix) + 1, Len(s)) = suffix

\* a validation that takes any URL that parses
ValidateUrlAnyProtocol(url) ==
  IF ~url.parses THEN << "Invalid URL format" >> ELSE << >>

\* validateUrl of networkUtils: the error, or << >> when the URL is valid
ValidateUrl(url) ==
  IF ~url.parses THEN << "Invalid URL format" >>
  ELSE IF url.protocol # "http:" /\ url.protocol # "https:"
       THEN << "Invalid URL protocol. Only HTTP and HTTPS are supported." >>
       ELSE << >>

\* a match that takes any host name ending with the domain for a subdomain
DomainMatchesBareSuffix(d, hostname) ==
  IF d.allowSubdomains
  THEN hostname = d.domain \/ EndsWith(hostname, d.domain)
  ELSE hostname = d.domain

\* the test isUrlAllowed makes for one policy entry
DomainMatches(d, hostname) ==
  IF d.allowSubdomains
  THEN hostname = d.domain \/ EndsWith(hostname, << "." >> \o d.domain)
  ELSE hostname = d.domain

\* isUrlAllowed: the index of the first matching policy entry, 0 if none
IsUrlAllowed(url) ==
  IF ~url.parses THEN 0
  ELSE LET hits == { i \in 1..Len(ALLOWED_DOMAINS) :
                       DomainMatches(ALLOWED_DOMAINS[i], url.hostname) }
       IN IF hits = {} THEN 0
          ELSE CHOOSE i \in hits : \A j \in hits : i <= j

\* a resolution that takes the requested type whatever the entry permits
EffectiveTypeAsRequested(request, d) ==
  IF request.extractionType # None THEN request.extractionType[1] ELSE "full"

\* the extraction type browseUrl uses for a request
EffectiveType(request, d) ==
  IF /\ request.extractionType # None
     /\ \E i \in 1..Len(d.extractionTypes) :
          d.extractionTypes[i] = request.extractionType[1]
  THEN request.extractionType[1]
  ELSE "full"

\* `${request.url}:${extractionType}`
CacheKey(request, type) == << request.url.text, ":", type >>

\* new URL(text) of a search URL
SearchUrl(query) ==
  [text |-> SearchUrlText(query), parses |-> TRUE, protocol |-> "https:",
   hostname |-> << "www", ".", "amazon", ".", "com" >>]

\* the URLs a chat turn browses
TurnUrls == { SearchUrl("a"), SearchUrl("kettle") }

CacheKeys ==
  { << u.text, ":", t >> : u \in Urls \cup TurnUrls, t \in ExtractionTypes }

\* a JavaScript number that may be NaN
NaN == [nan |-> TRUE, ms |-> 0]
Num(n) == [nan |-> FALSE, ms |-> n]
\* a < b on JavaScript numbers: false when either is NaN
JsLess(a, b) == ~a.nan /\ ~b.nan /\ a.ms < b.ms

\* domain.defaultCacheTime: the policy entries have no such field
DefaultCacheTime(d) == None

\* request.cacheTime || domain.defaultCacheTime
ResolveCacheTime(request, d) ==
  IF request.cacheTime # None /\ request.cacheTime[1] # 0
  THEN request.cacheTime
  ELSE DefaultCacheTime(d)

\* Date.now() + cacheTime * 1000, NaN when cacheTime is undefined
ExpiresAt(t, cacheTime) ==
  IF cacheTime = None THEN NaN ELSE Num(t + cacheTime[1] * 1000)

\* the comparison of getCachedResponse turned around
CacheExpiredInverted(entry, t) == JsLess(Num(t), entry.expiresAt)

\* cached.expiresAt < Date.now()
CacheExpired(entry, t) == JsLess(entry.expiresAt, Num(t))

\* a lookup that reports an expired entry as a miss but leaves it in place
GetCachedResponseKeepExpired(c, key, t) ==
  IF c[key] = None THEN [response |-> None, cache |-> c]
  ELSE IF CacheExpired(c[key][1], t)
       THEN [response |-> None, cache |-> c]
       ELSE [response |-> Some(c[key][1].response), cache |-> c]

\* getCachedResponse: the response returned, and the cache it leaves
GetCachedResponse(c, key, t) ==
  IF c[key] = None THEN [response |-> None, cache |-> c]
  ELSE IF CacheExpired(c[key][1], t)
       THEN [response |-> None, cache |-> [c EXCEPT ![key] = None]]
       ELSE [response |-> Some(c[key][1].response), cache |-> c]

\* cacheResponse stores the response object and then retags that same object
CachedObject(response) == [response EXCEPT !.source = "cache"]

\* cacheResponse: the cache after storing the response
CacheResponse(c, key, response, cacheTime, t) ==
  [c EXCEPT ![key] = Some([response |-> CachedObject(response),
                           expiresAt |-> ExpiresAt(t, cacheTime)])]

\* a window filter that keeps one millisecond too many
RecentTimesWide(times, t) ==
  LET InWindow(x) == x >= t - OneMinute - 1 IN SelectSeq(times, InWindow)

\* tracker.requestTimes.filter(time => time >= oneMinuteAgo)
RecentTimes(times, t) ==
  LET InWindow(x) == x >= t - OneMinute IN SelectSeq(times, InWindow)

\* a ceiling check that admits one request too many
CanMakeRequestOffByOne(rl, domain, limit, t) ==
  LET tracker == IF rl[domain] = None
                 THEN [requestTimes |-> << >>, limit |-> limit]
                 ELSE rl[domain][1]
      kept == [tracker EXCEPT !.requestTimes = RecentTimes(@, t)]
  IN [allowed |-> ~(Len(kept.requestTimes) > kept.limit),
      rateLimits |-> [rl EXCEPT ![domain] = Some(kept)]]

\* canMakeRequest: the verdict, and the trackers it leaves
CanMakeRequest(rl, domain, limit, t) ==
  LET tracker == IF rl[domain] = None
                 THEN [requestTimes |-> << >>, limit |-> limit]
                 ELSE rl[domain][1]
      kept == [tracker EXCEPT !.requestTimes = RecentTimes(@, t)]
  IN [allowed |-> ~(Len(kept.requestTimes) >= kept.limit),
      rateLimits |-> [rl EXCEPT ![domain] = Some(kept)]]

\* a record step that writes back a window read before the others recorded
RecordRequestOverwrites(rl, domain, t) ==
  IF rl[domain] = None THEN rl
  ELSE [rl EXCEPT ![domain] = Some([@[1] EXCEPT !.requestTimes = << t >>])]

\* a record step that stamps the window twice
RecordRequestTwice(rl, domain, t) ==
  IF rl[domain] = None THEN rl
  ELSE [rl EXCEPT ![domain] =
          Some([@[1] EXCEPT !.requestTimes = Append(Append(@, t), t)])]

\* recordRequest
RecordRequest(rl, domain, t) ==
  IF rl[domain] = None THEN rl
  ELSE [rl EXCEPT ![domain] =
          Some([@[1] EXCEPT !.requestTimes = Append(@, t)])]

\* BASE_RETRY_DELAY * Math.pow(2, attempt)
BackoffDelayMs(attempt) == BASE_RETRY_DELAY * (2 ^ attempt)

\* a status test that takes every error status for a passing one
IsRetryableStatusAnyError(status) == status >= 400

\* isRetryableStatus
IsRetryableStatus(status) == status = 429 \/ status >= 500

\* error.message.includes(sub) for the messages of the model
MessageIncludes(message, sub) ==
  << message, sub >> \in
    { << "NetworkError when attempting to fetch resource.", "NetworkError" >>,
      << "NetworkError when attempting to fetch resource.", "fetch" >>,
      << "Failed to fetch", "fetch" >>,
      << "network", "network" >>,
      << "API error: 401", "401" >>,
      << "API error: 429", "429" >> }

\* isRetryableError
IsRetryableError(error) ==
  \/ error.name = "AbortError"
  \/ MessageIncludes(error.message, "NetworkError")
  \/ MessageIncludes(error.message, "network")
  \/ MessageIncludes(error.message, "CORS")

\* the errors fetch(), response.text() and extractContent can throw: the
\* abort of the timeout, and a transport failure as worded by two browsers
AbortError ==
  [name |-> "AbortError", message |-> "The user aborted a request.",
   cause |-> "timeout"]
NetworkErrors ==
  { [name |-> "TypeError", message |-> "Failed to fetch", cause |-> "network"],
    [name |-> "TypeError",
     message |-> "NetworkError when attempting to fetch resource.",
     cause |-> "network"] }

HttpStatuses == {200, 404, 429, 503}

\* `HTTP error: ${response.status}`
HttpErrorMessage(status) == << "HTTP error: ", ToString(status) >>

FailureResponse(urlText, error) ==
  [success |-> FALSE, url |-> urlText, source |-> "live",
   error |-> error, content |-> << >>]

\* the response fetchWithRetries builds from a page
LiveResponse(urlText, type) ==
  [success |-> TRUE, url |-> urlText, source |-> "live",
   error |-> << >>, content |-> << "extracted", type, urlText >>]

\* the result after the retry loop is left
RetriesFailed(urlText, lastError) ==
  FailureResponse(urlText,
    IF lastError # None THEN << "Error: " >> \o lastError[1]
    ELSE << "Failed after maximum retry attempts" >>)

\* ---------------------------------------------------------------------------
\* State of the fetch core
\* ---------------------------------------------------------------------------
VARIABLES
  browsingCache,  \* cache.ts browsingCache: key -> None or Some(entry)
  rateLimits,     \* rateLimiter.ts rateLimits: domain -> None or Some(tracker)
  call,           \* the browseUrl calls in progress, one per caller
  fetches,        \* browseUrl calls started so far
  admitLog        \* every request recorded by the rate limiter: domain, time

fetchVars == << browsingCache, rateLimits, call, fetches, admitLog >>

\* ---------------------------------------------------------------------------
\* State of a chat turn (hooks/useChatMessageHandling, services/ai,
\* services/claude, services/openai)
\* ---------------------------------------------------------------------------
VARIABLES
  online,         \* navigator.onLine, mirrored by the hook's isOnline
  settings,       \* localStorage: selected_ai_provider and the two API keys
  turn,           \* the handleSendMessage call in progress
  uiMessages,     \* the hook's messages state, what the chat window shows
  isLoading,      \* the hook's isLoading state, which ChatInput is given
  overlap,        \* a handleSendMessage call entered while another is in progress
  turnsStarted,   \* handleSendMessage calls made by ChatInput so far
  refused         \* submissions ChatInput has dropped while a turn was in progress

chatVars == << isLoading, overlap, turnsStarted, refused >>

turnVars == << online, settings, turn, uiMessages, chatVars >>

vars == << now, ticks, storage, nextId, appends, lastOp,
           browsingCache, rateLimits, call, fetches, admitLog,
           online, settings, turn, uiMessages,
           isLoading, overlap, turnsStarted, refused >>

Callers == 1..NumCallers

NoRequest == [url |-> [text |-> "", parses |-> FALSE, protocol |-> "",
                       hostname |-> << >>],
              extractionType |-> None, cacheTime |-> None]

IdleCall ==
  [pc |-> "idle", request |-> NoRequest, domain |-> 0, type |-> "",
   key |-> None, attempt |-> 0, lastError |-> None, attemptStart |-> 0,
   wakeAt |-> 0, result |-> None,
   \* what happened, kept for the properties
   netAttempts |-> 0, delays |-> << >>, failed |-> 0,
   lastFailure |-> None,
   liveEntryAtStart |-> FALSE, pastExpiryAtStart |-> FALSE,
   cacheHit |-> FALSE, servedEntry |-> FALSE, reachedRateLimit |-> FALSE, admitted |-> FALSE,
   windowCount |-> 0, windowSlid |-> FALSE]

\* a browseUrl that checks the rate limit before it looks in the cache
BrowseUrlStartLimitFirst(c, rl, request, t) ==
  LET url  == request.url
      verr == ValidateUrl(url)
      di   == IsUrlAllowed(url)
      stop(res, c2, rl2, dom, ty, k, reached, hit) ==
        [next |-> "returned", result |-> Some(res), cache |-> c2,
         rateLimits |-> rl2, domain |-> dom, type |-> ty, key |-> k,
         reachedRateLimit |-> reached, admitted |-> FALSE, cacheHit |-> hit]
  IN IF verr # << >>
     THEN stop(FailureResponse(url.text, verr), c, rl, 0, "", None, FALSE, FALSE)
     ELSE IF di = 0
     THEN stop(FailureResponse(url.text, << "URL not in allowed domains list" >>),
               c, rl, 0, "", None, FALSE, FALSE)
     ELSE
       LET d    == ALLOWED_DOMAINS[di]
           type == EffectiveType(request, d)
           key  == CacheKey(request, type)
           look == GetCachedResponse(c, key, t)
           can  == CanMakeRequest(rl, d.domain, d.maxRequestsPerMinute, t)
       IN IF ~can.allowed
          THEN stop(FailureResponse(url.text,
                      << "Rate limit exceeded for " >> \o d.domain),
                    c, can.rateLimits, di, type, Some(key), TRUE, FALSE)
          ELSE IF look.response # None
          THEN stop(look.response[1], look.cache, can.rateLimits, di, type,
                    Some(key), TRUE, TRUE)
          ELSE [next |-> "fetching", result |-> None, cache |-> look.cache,
                rateLimits |-> RecordRequest(can.rateLimits, d.domain, t),
                domain |-> di, type |-> type, key |-> Some(key),
                reachedRateLimit |-> TRUE, admitted |-> TRUE, cacheHit |-> FALSE]

\* the synchronous part of browseUrl, up to the first network call
BrowseUrlStart(c, rl, request, t) ==
  LET url  == request.url
      verr == ValidateUrl(url)
      di   == IsUrlAllowed(url)
      stop(res, c2, rl2, dom, ty, k, reached, hit) ==
        [next |-> "returned", result |-> Some(res), cache |-> c2,
         rateLimits |-> rl2, domain |-> dom, type |-> ty, key |-> k,
         reachedRateLimit |-> reached, admitted |-> FALSE, cacheHit |-> hit]
  IN IF verr # << >>
     THEN stop(FailureResponse(url.text, verr), c, rl, 0, "", None, FALSE, FALSE)
     ELSE IF di = 0
     THEN stop(FailureResponse(url.text, << "URL not in allowed domains list" >>),
               c, rl, 0, "", None, FALSE, FALSE)
     ELSE
       LET d    == ALLOWED_DOMAINS[di]
           type == EffectiveType(request, d)
           key  == CacheKey(request, type)
           look == GetCachedResponse(c, key, t)
           can  == CanMakeRequest(rl, d.domain, d.maxRequestsPerMinute, t)
       IN IF look.response # None
          THEN stop(look.response[1], look.cache, rl, di, type, Some(key),
                    FALSE, TRUE)
          ELSE IF ~can.allowed
          THEN stop(FailureResponse(url.text,
                      << "Rate limit exceeded for " >> \o d.domain),
                    look.cache, can.rateLimits, di, type, Some(key), TRUE, FALSE)
          ELSE [next |-> "fetching", result |-> None, cache |-> look.cache,
                rateLimits |-> RecordRequest(can.rateLimits, d.domain, t),
                domain |-> di, type |-> type, key |-> Some(key),
                reachedRateLimit |-> TRUE, admitted |-> TRUE, cacheHit |-> FALSE]

\* the times of the requests to a domain the rate limiter has recorded
AdmittedTimes(log, domain) ==
  LET ForDomain(e) == e.domain = domain
      hits == SelectSeq(log, ForDomain)
  IN [i \in 1..Len(hits) |-> hits[i].t]

\* how many of the times lie in the 60 seconds up to t
CountInWindow(times, t) ==
  Cardinality({ i \in 1..Len(times) : times[i] >= t - OneMinute /\ times[i] <= t })

\* browseUrl called with a request: what it leaves behind when it returns
\* at once or waits for the network
StartRequest(p, request) ==
    \E r \in { BrowseUrlStart(browsingCache, rateLimits, request, now) } :
       LET key   == r.key
           entry == IF key # None THEN browsingCache[key[1]] ELSE None
           dom   == IF r.domain # 0 THEN ALLOWED_DOMAINS[r.domain].domain ELSE << >>
           times == AdmittedTimes(admitLog, dom)
           n     == IF r.domain # 0
                    THEN ALLOWED_DOMAINS[r.domain].maxRequestsPerMinute ELSE 0
       IN /\ browsingCache' = r.cache
          /\ rateLimits' = r.rateLimits
          /\ admitLog' = IF r.admitted
                         THEN Append(admitLog, [domain |-> dom, t |-> now])
                         ELSE admitLog
          /\ call' = [call EXCEPT ![p] =
               [IdleCall EXCEPT
                  !.pc = r.next, !.request = request, !.domain = r.domain,
                  !.type = r.type, !.key = r.key, !.result = r.result,
                  !.attemptStart = IF r.next = "fetching" THEN now ELSE 0,
                  !.netAttempts = IF r.next = "fetching" THEN 1 ELSE 0,
                  !.liveEntryAtStart =
                     /\ entry # None
                     /\ ~entry[1].expiresAt.nan
                     /\ now < entry[1].expiresAt.ms,
                  !.pastExpiryAtStart =
                     /\ entry # None
                     /\ ~entry[1].expiresAt.nan
                     /\ now > entry[1].expiresAt.ms,
                  !.cacheHit = r.cacheHit,
                  !.servedEntry =
                     entry # None /\ r.result = Some(entry[1].response),
                  !.reachedRateLimit = r.reachedRateLimit,
                  !.admitted = r.admitted,
                  !.windowCount = CountInWindow(times, now),
                  !.windowSlid =
                     /\ r.domain # 0
                     /\ Len(times) >= n
                     /\ now > times[Len(times) - n + 1] + OneMinute]]
          /\ fetches' = fetches + 1

\* browseUrl is called by a caller whose previous call, if any, has returned
Start(p) ==
  /\ call[p].pc \in {"idle", "returned"}
  /\ fetches < MaxFetches
  /\ \E request \in Requests : StartRequest(p, request)
  /\ UNCHANGED << now, ticks, storeVars >>

ResponseOk(status) == status >= 200 /\ status <= 299

\* what the network call of an attempt can produce at time t
NetOutcomes(c, t) ==
  { [kind |-> "status", status |-> st, error |-> AbortError] : st \in HttpStatuses }
  \cup { [kind |-> "throw", status |-> 0, error |-> e] : e \in NetworkErrors }
  \cup (IF t - c.attemptStart >= REQUEST_TIMEOUT_MS
        THEN { [kind |-> "throw", status |-> 0, error |-> AbortError] }
        ELSE {})

\* a catch block that lets a non-retryable error escape
AfterAttemptRethrow(attempt, outcome) ==
  IF outcome.kind = "status"
  THEN IF ResponseOk(outcome.status)
       THEN [next |-> "success", lastError |-> None]
       ELSE [next |-> IF IsRetryableStatus(outcome.status) THEN "delay" ELSE "break",
             lastError |-> Some(HttpErrorMessage(outcome.status))]
  ELSE [next |-> IF IsRetryableError(outcome.error) /\ attempt < MAX_RETRIES - 1
                 THEN "delay" ELSE "throw",
        lastError |-> Some(<< outcome.error.message >>)]

\* the body of the retry loop once the network call has settled
AfterAttempt(attempt, outcome) ==
  IF outcome.kind = "status"
  THEN IF ResponseOk(outcome.status)
       THEN [next |-> "success", lastError |-> None]
       ELSE [next |-> IF IsRetryableStatus(outcome.status) THEN "delay" ELSE "break",
             lastError |-> Some(HttpErrorMessage(outcome.status))]
  ELSE [next |-> IF IsRetryableError(outcome.error) /\ attempt < MAX_RETRIES - 1
                 THEN "delay" ELSE "break",
        lastError |-> Some(<< outcome.error.message >>)]

\* the conditions the retry policy names: 429, 5xx, timeout, network error
RetryableCondition(outcome) ==
  IF outcome.kind = "status" THEN outcome.status = 429 \/ outcome.status >= 500
  ELSE outcome.error.cause \in {"timeout", "network"}

\* a loop that caches whatever result it returns
StoreResultWhateverOutcome(c, key, next, result, cacheTime, t) ==
  IF next \in {"success", "break"}
  THEN CacheResponse(c, key, result, cacheTime, t)
  ELSE c

\* what an attempt of fetchWithRetries does to the cache: only the response
\* built from a page is stored
StoreResult(c, key, next, result, cacheTime, t) ==
  IF next = "success" THEN CacheResponse(c, key, result, cacheTime, t) ELSE c

\* the network call of an attempt settles
NetworkSettles(p) ==
  /\ call[p].pc = "fetching"
  /\ \E outcome \in NetOutcomes(call[p], now) :
       LET c    == call[p]
           a    == AfterAttempt(c.attempt, outcome)
           d    == ALLOWED_DOMAINS[c.domain]
           resp == IF a.next = "success"
                   THEN LiveResponse(c.request.url.text, c.type)
                   ELSE RetriesFailed(c.request.url.text, a.lastError)
           fail == [retryable |-> RetryableCondition(outcome),
                    message |-> a.lastError[1]]
       IN /\ browsingCache' = StoreResult(browsingCache, c.key[1], a.next, resp,
                                          ResolveCacheTime(c.request, d), now)
          /\ CASE a.next = "success" ->
                 call' = [call EXCEPT ![p].pc = "returned",
                                      ![p].attemptStart = 0,
                                      ![p].result = Some(CachedObject(resp))]
            [] a.next = "delay" ->
                 call' = [call EXCEPT
                       ![p].pc = "delaying",
                       ![p].attemptStart = 0,
                       ![p].lastError = a.lastError,
                       ![p].wakeAt = now + BackoffDelayMs(c.attempt),
                       ![p].delays = Append(@, BackoffDelayMs(c.attempt)),
                       ![p].failed = @ + 1,
                       ![p].lastFailure = Some(fail)]
            [] a.next = "break" ->
                 call' = [call EXCEPT
                       ![p].pc = "returned",
                       ![p].attemptStart = 0,
                       ![p].lastError = a.lastError,
                       ![p].failed = @ + 1,
                       ![p].lastFailure = Some(fail),
                       ![p].result = Some(resp)]
            [] OTHER ->
                 call' = [call EXCEPT ![p].pc = "threw",
                                      ![p].failed = @ + 1,
                       ![p].lastFailure = Some(fail)]
  /\ UNCHANGED << now, ticks, storeVars, rateLimits, fetches, admitLog >>

\* the backoff timer fires: the loop goes on, or is left after the last round
DelayElapses(p) ==
  /\ call[p].pc = "delaying"
  /\ now >= call[p].wakeAt
  /\ LET c == call[p]
     IN IF c.attempt + 1 < MAX_RETRIES
        THEN call' = [call EXCEPT ![p].pc = "fetching",
                                  ![p].wakeAt = 0,
                                  ![p].attempt = c.attempt + 1,
                                  ![p].attemptStart = now,
                                  ![p].netAttempts = @ + 1]
        ELSE call' = [call EXCEPT
                        ![p].pc = "returned",
                        ![p].wakeAt = 0,
                        ![p].attempt = c.attempt + 1,
                        ![p].result = Some(RetriesFailed(c.request.url.text,
                                                         c.lastError))]
  /\ UNCHANGED << now, ticks, storeVars, browsingCache, rateLimits, fetches,
                  admitLog >>

\* clearCache
ClearCache ==
  /\ \E k \in CacheKeys : browsingCache[k] # None
  /\ browsingCache' = [k \in CacheKeys |-> None]
  /\ UNCHANGED << now, ticks, storeVars, rateLimits, call, fetches, admitLog >>

\* the clock advances by a millisecond, a second or a minute
FetchTick ==
  /\ ticks < MaxFetchTicks
  /\ \E d \in {1, 1000, 60000} : now' = now + d
  /\ ticks' = ticks + 1
  /\ UNCHANGED << storeVars, fetchVars >>


\* ===========================================================================
\* Provider client (services/claude, services/openai)
\* ===========================================================================

\* ---------------------------------------------------------------------------
\* Program constants
\* ---------------------------------------------------------------------------
\* MAX_RETRIES of the provider clients
API_MAX_RETRIES == 3
RETRY_DELAY_MS == 1000
CONNECTION_TIMEOUT_MS == 15000

\* the statuses the provider API answers with in the model
ApiStatuses == {200, 401, 429, 500}

\* new Error(message)
Err(message) == [name |-> "Error", message |-> message, cause |-> ""]

\* `API error: ${response.status}`
ApiErrorMessage(status) == "API error: " \o ToString(status)

\* RETRY_DELAY_MS * Math.pow(2, attempt - 1)
RetryDelayMs(attempt) == RETRY_DELAY_MS * (2 ^ (attempt - 1))

\* a request that neither completes nor is aborted
ApiOutcomesNeverSettle(attemptStart, t) == {}

\* what the fetch of an attempt started at attemptStart can produce at time t
ApiOutcomes(attemptStart, t) ==
  { [kind |-> "status", status |-> st, error |-> AbortError] : st \in ApiStatuses }
  \cup { [kind |-> "throw", status |-> 0, error |-> e] : e \in NetworkErrors }
  \cup (IF t - attemptStart >= CONNECTION_TIMEOUT_MS
        THEN { [kind |-> "throw", status |-> 0, error |-> AbortError] }
        ELSE {})

\* the inner try and catch of sendWithRetry once fetch has settled: the
\* response is returned, a retry is scheduled, or an error is thrown on
InnerTry(attempt, outcome) ==
  IF outcome.kind = "status"
  THEN IF ResponseOk(outcome.status)
       THEN [next |-> "return", error |-> Err("")]
       ELSE IF attempt >= API_MAX_RETRIES
            THEN [next |-> "throw", error |-> Err(ApiErrorMessage(outcome.status))]
            ELSE IF outcome.status = 429 \/ outcome.status >= 500
                 THEN [next |-> "delay", error |-> Err("")]
                 ELSE [next |-> "throw",
                       error |-> Err(ApiErrorMessage(outcome.status))]
  ELSE IF outcome.error.name = "AbortError"
       THEN [next |-> "throw", error |-> Err("timeout")]
       ELSE IF /\ outcome.error.name = "TypeError"
               /\ MessageIncludes(outcome.error.message, "NetworkError")
            THEN [next |-> "throw", error |-> Err("network")]
            ELSE [next |-> "throw", error |-> outcome.error]

\* an outer catch that retries whatever the number of attempts made
OuterCatchUnbounded(attempt, error) ==
  IF /\ error.message # "offline"
     /\ error.message # "timeout"
     /\ error.message # "network"
  THEN [next |-> "delay", error |-> Err("")]
  ELSE [next |-> "throw", error |-> error]

\* the outer catch of sendWithRetry: is the error thrown on, or retried
OuterCatch(attempt, error) ==
  IF /\ attempt < API_MAX_RETRIES
     /\ error.message # "offline"
     /\ error.message # "timeout"
     /\ error.message # "network"
  THEN [next |-> "delay", error |-> Err("")]
  ELSE [next |-> "throw", error |-> error]

\* one call of sendWithRetry from the moment its fetch has settled
SendWithRetryAttempt(attempt, outcome) ==
  LET inner == InnerTry(attempt, outcome)
  IN IF inner.next = "throw" THEN OuterCatch(attempt, inner.error) ELSE inner

\* the reply texts of the services
ClaudeKeyMissingText ==
  "I'm unable to process your request at the moment. Please check that a Claude API key has been configured."
OpenAIKeyMissingText ==
  "I'm unable to process your request at the moment. Please check that an OpenAI API key has been configured."
OfflineText ==
  "It looks like you're currently offline. Please check your internet connection and try again when you're back online."
TimeoutText ==
  "I'm sorry, but the request timed out. Our AI service might be experiencing high traffic. Please try again in a few moments."
NetworkText ==
  "I'm having trouble connecting to my knowledge base due to network issues. Please check your internet connection and try again in a moment. If the problem persists, our servers might be experiencing issues."
RateLimitText ==
  "I've reached my rate limit. Please wait a moment before sending another message."
AuthText ==
  "There seems to be an issue with my authentication. Please check your API key in settings."
GenericErrorText ==
  "I'm sorry, I encountered an error processing your request. Please try again later."

\* handleError of services/claude: the text returned; nothing is stored
ClaudeHandleError(error) ==
  IF error.message = "offline" THEN OfflineText
  ELSE IF error.message = "timeout" THEN TimeoutText
  ELSE IF \/ MessageIncludes(error.message, "fetch")
          \/ MessageIncludes(error.message, "network")
       THEN NetworkText
  ELSE IF MessageIncludes(error.message, "429") THEN RateLimitText
  ELSE IF MessageIncludes(error.message, "401") THEN AuthText
  ELSE GenericErrorText

\* handleError of services/openai: the text returned, which is also appended
\* to the conversation as an assistant message
OpenAIHandleError(error) ==
  IF \/ error.message = "offline"
     \/ MessageIncludes(error.message, "NetworkError")
     \/ MessageIncludes(error.message, "network")
  THEN OfflineText
  ELSE IF error.message = "timeout" THEN TimeoutText
  ELSE IF \/ MessageIncludes(error.message, "fetch")
          \/ MessageIncludes(error.message, "network")
       THEN NetworkText
  ELSE IF MessageIncludes(error.message, "429") THEN RateLimitText
  ELSE IF MessageIncludes(error.message, "401") THEN AuthText
  ELSE GenericErrorText

\* ===========================================================================
\* Chat turn (hooks/useChatMessageHandling, services/ai)
\* ===========================================================================

\* values of localStorage.selected_ai_provider
Providers == {"claude", "openai", "both"}

\* the greeting the chat window stores when it opens on an empty context
GreetingText ==
  "Hello! I'm your customer support assistant. How can I help you with our electronics products today?"
\* the apology of the hook when the browser is offline
HookOfflineText ==
  "I notice you're currently offline. I'll need an internet connection to provide you with the best support. Please check your connection and try again."
\* AUTOMATED_RESPONSES.warranty.response
WarrantyResponse ==
  "Most of our electronics come with a 1-year manufacturer warranty covering defects in materials and workmanship. Premium products may include extended warranty options. For warranty service, please have your order number ready and contact our technical support team through your account or by replying to this message with more details about the issue."
\* what aiService returns for missing_api_key_claude and missing_api_key_openai
ClaudeConfigPrompt ==
  "Please add your Claude API key in the settings to use this service."
OpenAIConfigPrompt ==
  "Please add your OpenAI API key in the settings to use this service."
\* data.content[0].text of a successful response
ReplyText == "Here is what I found."
\* the TypeError of calling a method the context manager does not have
NotAFunction ==
  [name |-> "TypeError",
   message |-> "chatContextManager.getMessagesForOpenAIAPI is not a function",
   cause |-> ""]

\* getAutomatedResponse: the first category with a pattern the text includes
GetAutomatedResponse(content) ==
  IF content = "my laptop is broken, order #12345" THEN Some(WarrantyResponse)
  ELSE None

\* detectBrowsingRequest: match[1] of the first pattern that matches; the
\* lazy group takes the first character after the verb
DetectBrowsingRequest(content) ==
  IF content = "what is a kettle" THEN Some("a")
  ELSE IF content = "search amazon for kettle" THEN Some("a")
  ELSE None

\* detectAmazonQuery
DetectAmazonQuery(content) == content = "search amazon for kettle"

\* the product query handleAmazonQuery takes from the message
ProductQuery(content) ==
  IF content = "search amazon for kettle" THEN "kettle" ELSE ""

\* tokens joined into one string
RECURSIVE Join(_)
Join(tokens) ==
  IF tokens = << >> THEN "" ELSE tokens[1] \o Join(Tail(tokens))

\* the request of handleBrowsingRequest: every query falls to the Amazon search
BrowsingRequest(query) ==
  [url |-> SearchUrl(query), extractionType |-> Some("full"),
   cacheTime |-> Some(1800)]

\* the request of searchProducts and of the fallback of handleAmazonQuery
AmazonRequest(productQuery) ==
  [url |-> SearchUrl(productQuery), extractionType |-> Some("product"),
   cacheTime |-> Some(1800)]

\* what handleBrowsingRequest returns for a browseUrl result
BrowsingInfo(result) ==
  IF ~result.success
  THEN "Failed to retrieve information: " \o Join(result.error)
  ELSE "Source: " \o result.url \o "\n\nContent Extract:\n" \o Join(result.content)
       \o (IF result.source = "cache"
           THEN "\n\nNote: This information was retrieved from cache (last updated: unknown)"
           ELSE "")

\* what handleAmazonQuery returns when its own browseUrl call succeeds
AmazonFallbackInfo(productQuery, result) ==
  "Amazon Search Results:\nSearch query: \"" \o productQuery \o "\"\nSource: "
  \o result.url \o "\n\nContent extract:\n" \o Join(result.content)

\* the note aiService builds when handleAmazonQuery throws
AmazonErrorNote(browsingQuery, result) ==
  "I tried searching for \"" \o browsingQuery
  \o "\" on Amazon but encountered an error: "
  \o "Failed to get Amazon product information: " \o Join(result.error)

NoMessage == [role |-> "", content |-> "", timestamp |-> 0]

IdleTurn ==
  [pc |-> "idle", message |-> NoMessage, attempt |-> 0, attemptStart |-> 0,
   wakeAt |-> 0, reply |-> None,
   \* what happened, kept for the properties
   branch |-> "", offlineAtSubmit |-> FALSE, before |-> << >>,
   retrievals |-> 0, fetchAttempts |-> 0, retrieval |-> "", note |-> "",
   providerCalls |-> << >>, notices |-> 0, atDispatch |-> << >>,
   netAttempts |-> 0, delays |-> << >>, firstOutcome |-> "", lastOutcome |-> ""]

MessagesOf(st) == IF st = None THEN << >> ELSE st[1].messages

\* chatContextManager.addMessage on the state a handler works on
StoreAdd(m, t, message) ==
  [m EXCEPT
     !.storage = Some(AddMessageResult(m.storage, t,
                        [role |-> message.role, content |-> message.content,
                         timestamp |-> message.timestamp, id |-> m.nextId])),
     !.nextId = @ + 1]

\* aiService.sendMessage returns the reply; the hook then shows the stored
\* context, if there is one, and its finally block ends the loading state
Finish(m, t, reply) ==
  LET ctx == LoadContext(m.storage, t)
  IN [m EXCEPT !.storage = ctx.storage,
               !.ui = IF ctx.result # None THEN ctx.result[1].messages ELSE @,
               !.loading = FALSE,
               !.turn.pc = "returned",
               !.turn.attemptStart = 0,
               !.turn.wakeAt = 0,
               !.turn.reply = Some(reply)]

\* a sendMessage that sends the request without storing the message first
ClaudeSendWithoutAppend(m, t, on, cfg, content) ==
  LET m1 == [m EXCEPT !.turn.providerCalls =
                         Append(@, [provider |-> "claude", content |-> content])]
  IN IF ~cfg.claudeKey THEN Finish(m1, t, ClaudeKeyMissingText)
     ELSE IF ~on THEN Finish(m1, t, ClaudeHandleError(Err("offline")))
     ELSE [m1 EXCEPT !.turn.pc = "fetching",
                     !.turn.attempt = 1,
                     !.turn.attemptStart = t,
                     !.turn.netAttempts = 1,
                     !.turn.atDispatch = MessagesOf(m1.storage)]

\* claudeService.sendMessage up to the first fetch
ClaudeSend(m, t, on, cfg, content) ==
  LET m1 == [m EXCEPT !.turn.providerCalls =
                         Append(@, [provider |-> "claude", content |-> content])]
  IN IF ~cfg.claudeKey THEN Finish(m1, t, ClaudeKeyMissingText)
     ELSE IF ~on THEN Finish(m1, t, ClaudeHandleError(Err("offline")))
     ELSE LET m2 == StoreAdd(m1, t, [m.turn.message EXCEPT !.content = content])
          IN [m2 EXCEPT !.turn.pc = "fetching",
                        !.turn.attempt = 1,
                        !.turn.attemptStart = t,
                        !.turn.netAttempts = 1,
                        !.turn.atDispatch = MessagesOf(m2.storage)]

\* openaiService.sendMessage: the context manager has no
\* getMessagesForOpenAIAPI, so the call after the append throws
OpenAISend(m, t, on, cfg, content) ==
  LET m1 == [m EXCEPT !.turn.providerCalls =
                         Append(@, [provider |-> "openai", content |-> content])]
      apology(text) == [role |-> "assistant", content |-> text, timestamp |-> t]
  IN IF ~cfg.openaiKey THEN Finish(m1, t, OpenAIKeyMissingText)
     ELSE IF ~on
     THEN Finish(StoreAdd(m1, t, apology(OpenAIHandleError(Err("offline")))),
                 t, OpenAIHandleError(Err("offline")))
     ELSE LET m2 == StoreAdd(m1, t, [m.turn.message EXCEPT !.content = content])
          IN Finish(StoreAdd(m2, t, apology(OpenAIHandleError(NotAFunction))),
                    t, OpenAIHandleError(NotAFunction))

\* a retrieval branch that gives the turn up when the retrieval has failed
DispatchRetrievalAbortOnFailure(m, t, on, cfg, content) ==
  IF m.turn.retrieval = "failed"
  THEN Finish(m, t, "I'm sorry, there was an error processing your request. Please try again later or check your API configuration.")
  ELSE IF cfg.selected = "claude"
  THEN IF ~cfg.claudeKey THEN Finish(m, t, ClaudeConfigPrompt)
       ELSE ClaudeSend(m, t, on, cfg, content)
  ELSE IF ~cfg.openaiKey THEN Finish(m, t, OpenAIConfigPrompt)
       ELSE OpenAISend(m, t, on, cfg, content)

\* the provider choice of the retrieval branches of aiService.sendMessage; a
\* missing key is thrown to the outer catch, which returns the prompt
DispatchRetrieval(m, t, on, cfg, content) ==
  IF cfg.selected = "claude"
  THEN IF ~cfg.claudeKey THEN Finish(m, t, ClaudeConfigPrompt)
       ELSE ClaudeSend(m, t, on, cfg, content)
  ELSE IF ~cfg.openaiKey THEN Finish(m, t, OpenAIConfigPrompt)
       ELSE OpenAISend(m, t, on, cfg, content)

\* a provider choice that leaves the key check to the services
DispatchPlainNoKeyCheck(m, t, on, cfg, content) ==
  IF cfg.selected = "claude" THEN ClaudeSend(m, t, on, cfg, content)
  ELSE IF cfg.selected = "openai" THEN OpenAISend(m, t, on, cfg, content)
  ELSE IF cfg.claudeKey THEN ClaudeSend(m, t, on, cfg, content)
       ELSE OpenAISend([m EXCEPT !.turn.notices = @ + 1], t, on, cfg, content)

\* the provider choice of aiService.sendMessage for a regular message
DispatchPlain(m, t, on, cfg, content) ==
  IF cfg.selected = "claude"
  THEN IF ~cfg.claudeKey THEN Finish(m, t, ClaudeConfigPrompt)
       ELSE ClaudeSend(m, t, on, cfg, content)
  ELSE IF cfg.selected = "openai"
  THEN IF ~cfg.openaiKey THEN Finish(m, t, OpenAIConfigPrompt)
       ELSE OpenAISend(m, t, on, cfg, content)
  ELSE IF cfg.claudeKey
       \* claudeService.sendMessage catches its errors: nothing reaches the
       \* catch that falls back
       THEN ClaudeSend(m, t, on, cfg, content)
       ELSE IF ~cfg.openaiKey THEN Finish(m, t, OpenAIConfigPrompt)
            ELSE OpenAISend([m EXCEPT !.turn.notices = @ + 1], t, on, cfg, content)

\* the frames of handleSendMessage: the call in progress and, should the
\* chat input let one through, a call entered before the first has returned
Frames == {1, 2}

Frame(f) == IF f = 1 THEN turn ELSE overlap

\* the state a handler of a frame works on
Machine(fr) ==
  [storage |-> storage, nextId |-> nextId, turn |-> fr, ui |-> uiMessages,
   loading |-> isLoading]

ApplyIn(f, m) ==
  \E after \in {m} :
     /\ storage' = after.storage
     /\ nextId' = after.nextId
     /\ uiMessages' = after.ui
     /\ isLoading' = after.loading
     /\ IF f = 1 THEN turn' = after.turn /\ overlap' = overlap
        ELSE overlap' = after.turn /\ turn' = turn

\* handleSendMessage of the hook, up to the first network call
HandleSendMessageIn(f, content) ==
  /\ LET userMessage == [role |-> "user", content |-> content, timestamp |-> now]
         t0    == [IdleTurn EXCEPT !.message = userMessage,
                                   !.before = MessagesOf(storage),
                                   !.offlineAtSubmit = ~online]
         m0    == [Machine(t0) EXCEPT !.ui = Append(@, userMessage)]
         auto  == GetAutomatedResponse(content)
         query == DetectBrowsingRequest(content)
     IN IF ~online
        THEN /\ ApplyIn(f, [m0 EXCEPT
                 !.ui = Append(@, [role |-> "assistant",
                                   content |-> HookOfflineText,
                                   timestamp |-> now]),
                 !.turn.pc = "returned", !.turn.branch = "offline"])
             /\ UNCHANGED fetchVars
        ELSE IF auto # None
        THEN LET reply == [role |-> "assistant", content |-> auto[1],
                           timestamp |-> now]
                 m1 == StoreAdd(StoreAdd(m0, now, userMessage), now, reply)
             IN /\ ApplyIn(f, [m1 EXCEPT !.ui = Append(@, reply),
                                         !.turn.pc = "returned",
                                         !.turn.branch = "automated"])
                /\ UNCHANGED fetchVars
        ELSE IF ~settings.claudeKey /\ ~settings.openaiKey
        THEN /\ ApplyIn(f, [m0 EXCEPT !.loading = FALSE,
                                      !.turn.pc = "returned",
                                      !.turn.branch = "settings"])
             /\ UNCHANGED fetchVars
        ELSE IF query # None
        THEN /\ StartRequest(f, IF DetectAmazonQuery(content)
                                THEN AmazonRequest(ProductQuery(content))
                                ELSE BrowsingRequest(query[1]))
             /\ ApplyIn(f, [m0 EXCEPT
                  !.loading = TRUE,
                  !.turn.pc = IF DetectAmazonQuery(content) THEN "searching"
                              ELSE "browsing",
                  !.turn.branch = IF DetectAmazonQuery(content) THEN "amazon"
                                  ELSE "browsing",
                  !.turn.retrievals = 1])
        ELSE /\ ApplyIn(f, DispatchPlain([m0 EXCEPT !.loading = TRUE,
                                                    !.turn.branch = "plain"],
                                         now, online, settings, content))
             /\ UNCHANGED fetchVars
  /\ UNCHANGED << now, ticks, appends, lastOp, online, settings >>

\* the user submits the first message after the chat window has opened
HandleSendMessage ==
  /\ turn.pc = "idle"
  /\ \E content \in TurnContents : HandleSendMessageIn(1, content)
  /\ UNCHANGED << turnsStarted, refused >>

\* the browseUrl call of the retrieval step has returned and its frame is
\* gone: aiService goes on to the provider, or handleAmazonQuery to its own
\* browseUrl call
RetrievalReturnsIn(f) ==
  /\ Frame(f).pc \in {"searching", "browsingAmazon", "browsing"}
  /\ call[f].pc = "returned"
  /\ LET result  == call[f].result[1]
         content == Frame(f).message.content
         seen    == [Frame(f) EXCEPT !.fetchAttempts =
                                       IF call[f].netAttempts > @
                                       THEN call[f].netAttempts ELSE @]
         m0      == Machine(seen)
         go(info) ==
           /\ \E note \in {info} :
                 ApplyIn(f, DispatchRetrieval(
                      [m0 EXCEPT !.turn.note = note,
                                 !.turn.retrieval = IF result.success THEN "ok"
                                                    ELSE "failed"],
                      now, online, settings, Enhanced(content, note)))
           /\ call' = [call EXCEPT ![f] = IdleCall]
           /\ UNCHANGED << browsingCache, rateLimits, fetches, admitLog >>
     IN IF Frame(f).pc = "searching"
        THEN IF result.success
             THEN go(ProductInfoText(ProductQuery(content)))
             ELSE /\ StartRequest(f, AmazonRequest(ProductQuery(content)))
                  /\ ApplyIn(f, [m0 EXCEPT !.turn.pc = "browsingAmazon",
                                           !.turn.retrievals = @ + 1])
        ELSE IF Frame(f).pc = "browsingAmazon"
        THEN IF result.success
             THEN go(AmazonFallbackInfo(ProductQuery(content), result))
             ELSE go(AmazonErrorNote(DetectBrowsingRequest(content)[1], result))
        ELSE go(BrowsingInfo(result))
  /\ UNCHANGED << now, ticks, appends, lastOp, online, settings,
                  turnsStarted, refused >>

RetrievalReturns == RetrievalReturnsIn(1)

\* how the properties name the outcome of an attempt
OutcomeClass(outcome) ==
  IF outcome.kind = "status" THEN ToString(outcome.status)
  ELSE IF outcome.error.name = "AbortError" THEN "timeout"
  ELSE outcome.error.message

\* the fetch of sendWithRetry settles
ProviderSettlesIn(f) ==
  /\ Frame(f).pc = "fetching"
  /\ \E outcome \in ApiOutcomes(Frame(f).attemptStart, now) :
       LET fr == Frame(f)
           r  == SendWithRetryAttempt(fr.attempt, outcome)
           m0 == Machine([fr EXCEPT
                            !.firstOutcome = IF fr.attempt = 1
                                             THEN OutcomeClass(outcome) ELSE @,
                            !.lastOutcome = OutcomeClass(outcome)])
       IN IF r.next = "return"
          THEN ApplyIn(f, Finish(StoreAdd(m0, now, [role |-> "assistant",
                                                    content |-> ReplyText,
                                                    timestamp |-> now]),
                                 now, ReplyText))
          ELSE IF r.next = "delay"
          THEN ApplyIn(f, [m0 EXCEPT
                        !.turn.pc = "delaying",
                        !.turn.attemptStart = 0,
                        !.turn.wakeAt = now + RetryDelayMs(fr.attempt),
                        !.turn.delays = Append(@, RetryDelayMs(fr.attempt))])
          ELSE ApplyIn(f, Finish(m0, now, ClaudeHandleError(r.error)))
  /\ UNCHANGED << now, ticks, appends, lastOp, fetchVars, online, settings,
                  turnsStarted, refused >>

ProviderSettles == ProviderSettlesIn(1)

\* the retry timer fires: sendWithRetry is entered for the next attempt
ProviderDelayElapsesIn(f) ==
  /\ Frame(f).pc = "delaying"
  /\ now >= Frame(f).wakeAt
  /\ LET m0 == Machine(Frame(f))
     IN IF ~online
        THEN ApplyIn(f, Finish(m0, now, ClaudeHandleError(Err("offline"))))
        ELSE ApplyIn(f, [m0 EXCEPT !.turn.pc = "fetching",
                                   !.turn.wakeAt = 0,
                                   !.turn.attempt = @ + 1,
                                   !.turn.attemptStart = now,
                                   !.turn.netAttempts = @ + 1])
  /\ UNCHANGED << now, ticks, appends, lastOp, fetchVars, online, settings,
                  turnsStarted, refused >>

ProviderDelayElapses == ProviderDelayElapsesIn(1)

\* the timers a chat turn waits for: the retry delays, and the timeout of
\* the provider request; the pages of the retrieval step answer or fail
\* before their timeout
Deadlines ==
  { call[p].wakeAt : p \in { q \in Callers : call[q].pc = "delaying" } }
  \cup { Frame(f).wakeAt : f \in { g \in Frames : Frame(g).pc = "delaying" } }
  \cup { Frame(f).attemptStart + CONNECTION_TIMEOUT_MS :
           f \in { g \in Frames : Frame(g).pc = "fetching" } }

\* time passes until the next timer is due
TimePasses ==
  /\ \E d \in Deadlines :
       /\ d > now
       /\ \A e \in Deadlines : e > now => d <= e
       /\ now' = d
  /\ UNCHANGED << ticks, storeVars, fetchVars, turnVars >>

\* the browser loses or regains its connection
GoOffline ==
  /\ online
  /\ online' = FALSE
  /\ UNCHANGED << now, ticks, storeVars, fetchVars, settings, turn,
                  uiMessages, chatVars >>

GoOnline ==
  /\ ~online
  /\ online' = TRUE
  /\ UNCHANGED << now, ticks, storeVars, fetchVars, settings, turn,
                  uiMessages, chatVars >>

\* ---------------------------------------------------------------------------
\* The chat input (components/ChatBot/ChatInput)
\* ---------------------------------------------------------------------------
\* submissions the chat input passes on in one behaviour
MaxTurns == 2

\* what the user types into the chat input of the conversation model
ChatContents == {"hello", "my laptop is broken, order #12345"}

\* a chat input that passes a submission on whatever the loading state
SubmitAcceptedAlways(loading) == TRUE

\* inputValue.trim() && !isLoading && !disabled, for a text that is not blank
\* and an input that is not disabled
SubmitAccepted(loading) == ~loading

Free(fr) == fr.pc \in {"idle", "returned"}

\* ChatInput.handleSubmit: the text is passed to handleSendMessage, which
\* runs in a frame of its own, or the submission is dropped
HandleSubmit ==
  /\ \E content \in ChatContents :
       IF SubmitAccepted(isLoading)
       THEN /\ turnsStarted < MaxTurns
            /\ \E f \in Frames :
                 /\ Free(Frame(f))
                 /\ \A g \in Frames : g < f => ~Free(Frame(g))
                 /\ HandleSendMessageIn(f, content)
            /\ turnsStarted' = turnsStarted + 1
            /\ refused' = FALSE
       ELSE /\ refused' = TRUE
            /\ UNCHANGED << now, ticks, storeVars, fetchVars, online, settings,
                            turn, uiMessages, isLoading, overlap, turnsStarted >>

\* ---------------------------------------------------------------------------
\* Specifications
\* ---------------------------------------------------------------------------
\* a context built by lead + sys + rest appends, none of which trimmed
InitialMessages(lead, sys, rest) ==
  [i \in 1..(lead + sys + rest) |->
     [role |-> IF i > lead /\ i <= lead + sys THEN "system"
               ELSE IF i % 2 = 1 THEN "user" ELSE "assistant",
      content |-> "hello", timestamp |-> 1, id |-> i]]

InitStoreVars ==
  /\ storage = None
  /\ nextId = 1
  /\ appends = 0
  /\ lastOp = NoOp

InitChatVars ==
  /\ isLoading = FALSE
  /\ overlap = IdleTurn
  /\ turnsStarted = 0
  /\ refused = FALSE

InitTurnVars ==
  /\ online = TRUE
  /\ settings = [selected |-> "claude", claudeKey |-> TRUE, openaiKey |-> TRUE]
  /\ turn = IdleTurn
  /\ uiMessages = << >>
  /\ InitChatVars

InitFetchVars ==
  /\ browsingCache = [k \in CacheKeys |-> None]
  /\ rateLimits = [d \in DomainNames |-> None]
  /\ call = [p \in Callers |-> IdleCall]
  /\ fetches = 0
  /\ admitLog = << >>

\* the conversation store, from an empty context or from one that earlier
\* appends have filled up to MaxRoom messages below the maximum
InitStore ==
  /\ now = 1
  /\ ticks = 0
  /\ \E lead \in 0..MaxLead, sys \in 0..MAX_CONTEXT_SIZE,
        rest \in 0..MAX_CONTEXT_SIZE :
       /\ lead + sys + rest <= MAX_CONTEXT_SIZE
       /\ (lead + sys + rest = 0 \/ lead + sys + rest >= MAX_CONTEXT_SIZE - MaxRoom)
       /\ storage = IF lead + sys + rest = 0 THEN None
                    ELSE Some([messages |-> InitialMessages(lead, sys, rest),
                               metadata |-> EmptyMetadata(1)])
       /\ nextId = lead + sys + rest + 1
  /\ appends = 0
  /\ lastOp = NoOp
  /\ InitFetchVars
  /\ InitTurnVars

NextStore ==
  \/ (GetContext /\ UNCHANGED << fetchVars, turnVars >>)
  \/ (AddMessage /\ UNCHANGED << fetchVars, turnVars >>)
  \/ (ClearContext /\ UNCHANGED << fetchVars, turnVars >>)
  \/ (StoreTick /\ UNCHANGED << fetchVars, turnVars >>)

SpecStore == InitStore /\ [][NextStore]_vars

\* the fetch core, after some requests to amazon.com that have all returned
InitFetch ==
  /\ now = 1
  /\ ticks = 0
  /\ InitStoreVars
  /\ browsingCache = [k \in CacheKeys |-> None]
  /\ call = [p \in Callers |-> IdleCall]
  /\ fetches = 0
  /\ \E prior \in {0, MaxPrior} :
       /\ rateLimits =
            [d \in DomainNames |->
               IF d = AmazonCom /\ prior > 0
               THEN Some([requestTimes |-> [i \in 1..prior |-> 1],
                          limit |-> ALLOWED_DOMAINS[1].maxRequestsPerMinute])
               ELSE None]
       /\ admitLog = [i \in 1..prior |-> [domain |-> AmazonCom, t |-> 1]]
  /\ InitTurnVars

NextFetch ==
  \/ \E p \in Callers : (Start(p) /\ UNCHANGED turnVars)
  \/ \E p \in Callers : (NetworkSettles(p) /\ UNCHANGED turnVars)
  \/ \E p \in Callers : (DelayElapses(p) /\ UNCHANGED turnVars)
  \/ (ClearCache /\ UNCHANGED turnVars)
  \/ (FetchTick /\ UNCHANGED turnVars)

SpecFetch == InitFetch /\ [][NextFetch]_vars

\* the callers of the overlapping browseUrl calls
Racers == 1..MaxOverlap

\* the requests they make: a product page and a support article, with the
\* default type and cache time
RaceRequests ==
  { r \in Requests :
      /\ r.url.text \in {"https://www.amazon.com/dp/B01", "https://support.apple.com/kb"}
      /\ r.extractionType = None
      /\ r.cacheTime = None }

\* browseUrl is called while the calls of the other callers are in progress
StartRace(p) ==
  /\ call[p].pc \in {"idle", "returned"}
  /\ fetches < MaxFetches
  /\ \E request \in RaceRequests : StartRequest(p, request)
  /\ UNCHANGED << now, ticks, storeVars >>

\* overlapping fetches: several callers, each of which may call browseUrl
\* while the calls of the others wait for the network or for a backoff
InitRace ==
  /\ now = 1
  /\ ticks = 0
  /\ InitStoreVars
  /\ browsingCache = [k \in CacheKeys |-> None]
  /\ call = [p \in Racers |-> IdleCall]
  /\ fetches = 0
  /\ \E prior \in {0, MaxPrior} :
       /\ rateLimits =
            [d \in DomainNames |->
               IF d = AmazonCom /\ prior > 0
               THEN Some([requestTimes |-> [i \in 1..prior |-> 1],
                          limit |-> ALLOWED_DOMAINS[1].maxRequestsPerMinute])
               ELSE None]
       /\ admitLog = [i \in 1..prior |-> [domain |-> AmazonCom, t |-> 1]]
  /\ InitTurnVars

NextRace ==
  \/ \E p \in Racers : (StartRace(p) /\ UNCHANGED turnVars)
  \/ \E p \in Racers : (NetworkSettles(p) /\ UNCHANGED turnVars)
  \/ \E p \in Racers : (DelayElapses(p) /\ UNCHANGED turnVars)
  \/ (FetchTick /\ UNCHANGED turnVars)

SpecRace == InitRace /\ [][NextRace]_vars

Greeting == [role |-> "assistant", content |-> GreetingText, timestamp |-> 1, id |-> 1]

\* a chat turn: the chat window has opened on an empty context and stored
\* its greeting; the provider and the keys are any the settings allow
InitTurn ==
  /\ now = 1
  /\ ticks = 0
  /\ storage = Some([messages |-> << Greeting >>, metadata |-> EmptyMetadata(1)])
  /\ nextId = 2
  /\ appends = 0
  /\ lastOp = NoOp
  /\ browsingCache = [k \in CacheKeys |-> None]
  /\ call = [p \in Callers |-> IdleCall]
  /\ fetches = 0
  /\ \E prior \in {0, MaxPrior} :
       /\ rateLimits =
            [d \in DomainNames |->
               IF d = AmazonCom /\ prior > 0
               THEN Some([requestTimes |-> [i \in 1..prior |-> 1],
                          limit |-> ALLOWED_DOMAINS[1].maxRequestsPerMinute])
               ELSE None]
       /\ admitLog = [i \in 1..prior |-> [domain |-> AmazonCom, t |-> 1]]
  /\ online = TRUE
  /\ settings \in [selected : Providers, claudeKey : BOOLEAN, openaiKey : BOOLEAN]
  /\ turn = IdleTurn
  /\ uiMessages = << Greeting >>
  /\ InitChatVars

NextTurn ==
  \/ HandleSendMessage
  \/ RetrievalReturns
  \/ \E p \in Callers : (NetworkSettles(p) /\ UNCHANGED turnVars)
  \/ \E p \in Callers : (DelayElapses(p) /\ UNCHANGED turnVars)
  \/ ProviderSettles
  \/ ProviderDelayElapses
  \/ TimePasses
  \/ GoOffline
  \/ GoOnline

SpecTurn == InitTurn /\ [][NextTurn]_vars

\* the steps that do not wait for the user: a request in flight settles, a
\* timer that is due fires, the clock reaches the next timer, a retrieval
\* that has returned is taken up
TurnProgress ==
  \/ \E p \in Callers : (NetworkSettles(p) /\ UNCHANGED turnVars)
  \/ \E p \in Callers : (DelayElapses(p) /\ UNCHANGED turnVars)
  \/ ProviderDelayElapses
  \/ TimePasses
  \/ ProviderSettles
  \/ RetrievalReturns

FairTurn == WF_vars(TurnProgress)

\* a chat turn with Claude selected and its key configured, in which no step
\* that is due is put off for ever
InitTurnLive ==
  /\ InitTurn
  /\ settings = [selected |-> "claude", claudeKey |-> TRUE, openaiKey |-> TRUE]

SpecTurnLive == InitTurnLive /\ [][NextTurn]_vars /\ FairTurn

\* a conversation: the chat window has opened and stored its greeting, both
\* keys are configured, and the user submits messages at any moment
InitChat ==
  /\ now = 1
  /\ ticks = 0
  /\ storage = Some([messages |-> << Greeting >>, metadata |-> EmptyMetadata(1)])
  /\ nextId = 2
  /\ appends = 0
  /\ lastOp = NoOp
  /\ InitFetchVars
  /\ online = TRUE
  /\ settings \in [selected : Providers, claudeKey : {TRUE}, openaiKey : {TRUE}]
  /\ turn = IdleTurn
  /\ uiMessages = << Greeting >>
  /\ InitChatVars

NextChat ==
  \/ HandleSubmit
  \/ \E f \in Frames : ProviderSettlesIn(f)
  \/ \E f \in Frames : ProviderDelayElapsesIn(f)
  \/ TimePasses
  \/ GoOffline
  \/ GoOnline

SpecChat == InitChat /\ [][NextChat]_vars

\* the catch block of a provider's sendMessage: sendWithRetry has given up
\* with an error, or navigator.onLine was false, and handleError maps the
\* error to the apology; the handleError of services/openai also appends it
HandleError ==
  /\ turnsStarted < MaxTurns
  /\ \E provider \in {"claude", "openai"} :
       LET FailureClass(outcome) ==
             IF outcome.kind = "status"
             THEN (IF outcome.status = 429 THEN "rate limited"
                   ELSE IF outcome.status = 401 THEN "authentication failed"
                   ELSE "other api error")
             ELSE IF outcome.error.name = "AbortError" THEN "timeout"
             ELSE "network error"
           \* what the last attempt of sendWithRetry throws for each failure
           thrown ==
             { [failure |-> "offline", error |-> Err("offline")] }
             \cup { [failure |-> FailureClass(o),
                     error |-> SendWithRetryAttempt(API_MAX_RETRIES, o).error] :
                      o \in { x \in ApiOutcomes(0, CONNECTION_TIMEOUT_MS) :
                                x.kind = "throw" \/ ~ResponseOk(x.status) } }
       IN \E e \in thrown :
            LET text == IF provider = "claude" THEN ClaudeHandleError(e.error)
                        ELSE OpenAIHandleError(e.error)
                m0   == Machine(turn)
                m1   == IF provider = "openai"
                        THEN StoreAdd(m0, now, [role |-> "assistant",
                                                content |-> text,
                                                timestamp |-> now])
                        ELSE m0
            IN /\ storage' = m1.storage
               /\ nextId' = m1.nextId
               /\ lastOp' = [op |-> "handleError", provider |-> provider,
                             failure |-> e.failure, text |-> text,
                             earlier |-> IF lastOp.op = "handleError"
                                         THEN Some([provider |-> lastOp.provider,
                                                    failure |-> lastOp.failure,
                                                    text |-> lastOp.text])
                                         ELSE None]
  /\ turnsStarted' = turnsStarted + 1
  /\ UNCHANGED << now, ticks, appends, fetchVars, online, settings, turn,
                  uiMessages, isLoading, overlap, refused >>

\* provider calls that fail, one after the other
SpecErrors == InitChat /\ [][HandleError]_vars

\* ---------------------------------------------------------------------------
\* Properties of the conversation store
\* ---------------------------------------------------------------------------
StoredMessages == IF storage = None THEN << >> ELSE storage[1].messages

\* C1: after any sequence of appends, of messages of any role, the store
\* never holds more than MAX_CONTEXT_SIZE messages.
StoreSizeBounded == Len(StoredMessages) <= MAX_CONTEXT_SIZE

\* C2: when an append trims the context, every system message that was in
\* the context before the trim is still in it afterwards.
TrimKeepsSystemMessages ==
  (lastOp.op = "addMessage" /\ lastOp.trimmed) =>
     \A i \in 1..Len(lastOp.before) :
        IsSystem(lastOp.before[i]) =>
           \E j \in 1..Len(lastOp.result.messages) :
              lastOp.result.messages[j] = lastOp.before[i]

\* an append has trimmed a context that held system messages and has evicted
\* a message
TrimWithSystemMessagesSeen ==
  /\ lastOp.op = "addMessage"
  /\ lastOp.trimmed
  /\ \E i \in 1..Len(lastOp.before) : IsSystem(lastOp.before[i])
  /\ Len(lastOp.result.messages) <= Len(lastOp.before)

\* C3: a read made more than CONTEXT_EXPIRY after lastUpdated returns absent
\* and removes the stored record, and so does every read that follows it
\* with no append in between.
ExpiredReadClears ==
  (lastOp.op = "getContext" /\ (lastOp.wasExpired \/ lastOp.afterExpiredRead)) =>
     (lastOp.result = None /\ storage = None)

\* a read has followed the read that found the context expired
SecondReadAfterExpirySeen ==
  /\ lastOp.op = "getContext"
  /\ lastOp.afterExpiredRead
  /\ lastOp.result = None

\* C24: when an append makes the count exceed MAX_CONTEXT_SIZE and the
\* context holds s system messages, the non-system messages retained are
\* exactly the (MAX_CONTEXT_SIZE - s) most recently appended non-system
\* messages.
TrimKeepsMostRecentOthers ==
  (lastOp.op = "addMessage" /\ lastOp.trimmed) =>
     LET pushed == Append(lastOp.before, lastOp.message)
         s      == Len(SelectSeq(pushed, IsSystem))
         others == SelectSeq(pushed, NotSystem)
         k      == MAX_CONTEXT_SIZE - s
         \* the k most recently appended of them (none when k <= 0)
         recent == IF k <= 0 THEN << >>
                   ELSE IF k >= Len(others) THEN others
                   ELSE SubSeq(others, Len(others) - k + 1, Len(others))
     IN SelectSeq(lastOp.result.messages, NotSystem) = recent

\* C25: an append made after the stored context's expiry period has passed
\* leaves a context that holds only the appended message and the metadata
\* that message alone gives: nothing of the expired context survives.
AppendAfterExpiryStartsAfresh ==
  (lastOp.op = "addMessage" /\ lastOp.wasExpired) =>
     LET m == lastOp.message
     IN /\ lastOp.result.messages = << m >>
        /\ lastOp.result.metadata.lastUpdated = m.timestamp
        /\ lastOp.result.metadata.productInterests =
              (IF m.role = "user" THEN FoundProducts(m.content) ELSE << >>)
        /\ lastOp.result.metadata.orderReferences =
              (IF m.role = "user" THEN FoundOrders(m.content) ELSE << >>)
        /\ lastOp.result.metadata.supportTopics =
              (IF m.role = "user" THEN FoundTopics(m.content) ELSE << >>)
        /\ storage = Some(lastOp.result)

\* an expired context with a product interest has been replaced by an append
\* that mentions none
StaleInterestsDroppedSeen ==
  /\ lastOp.op = "addMessage"
  /\ lastOp.wasExpired
  /\ lastOp.stale[1].metadata.productInterests = << "laptop" >>
  /\ lastOp.message.content = "hello"
  /\ Len(StoredMessages) = 1

\* C33: over appends with no clear or expiry between them the context's
\* lastUpdated never decreases, and after each append it is the time of
\* that append.
LastUpdatedFollowsAppends ==
  [][ appends' = appends + 1 =>
        /\ storage' # None
        /\ storage'[1].metadata.lastUpdated = now
        /\ (/\ storage # None
            /\ now - storage[1].metadata.lastUpdated <= CONTEXT_EXPIRY) =>
              storage'[1].metadata.lastUpdated >= storage[1].metadata.lastUpdated
    ]_vars

\* an append has moved lastUpdated forward to its own time
LastUpdatedMovedForwardSeen ==
  /\ lastOp.op = "addMessage"
  /\ appends = 2
  /\ ~lastOp.wasExpired
  /\ lastOp.stale # None
  /\ lastOp.stale[1].metadata.lastUpdated < now
  /\ storage[1].metadata.lastUpdated = now
  /\ Len(StoredMessages) = Len(lastOp.before) + 1

\* C34: the context an append returns contains the message just appended,
\* whatever its role and whatever the context held.
AppendedMessageRetained ==
  lastOp.op = "addMessage" =>
     \E i \in 1..Len(lastOp.result.messages) :
        lastOp.result.messages[i] = lastOp.message

\* C35: in the context an append returns, trimmed or not, the messages
\* stand in the order in which they were appended.
AppendKeepsInsertionOrder ==
  lastOp.op = "addMessage" =>
     \A i, j \in 1..Len(lastOp.result.messages) :
        i < j => lastOp.result.messages[i].id < lastOp.result.messages[j].id

\* ---------------------------------------------------------------------------
\* Properties of the fetch core
\* ---------------------------------------------------------------------------
DomainOf(c) == ALLOWED_DOMAINS[c.domain]

RateLimitFailure(c) ==
  FailureResponse(c.request.url.text,
                  << "Rate limit exceeded for " >> \o DomainOf(c).domain)

\* C4: once as many requests as the domain's ceiling have been admitted with
\* timestamps in the trailing 60 seconds, the next fetch that reaches the
\* rate-limit step is rejected with a rate-limit failure.
SaturatedWindowRejects ==
  \A p \in Callers :
     (/\ call[p].reachedRateLimit
      /\ call[p].windowCount >= DomainOf(call[p]).maxRequestsPerMinute) =>
        /\ ~call[p].admitted
        /\ call[p].pc = "returned"
        /\ call[p].netAttempts = 0
        /\ call[p].result = Some(RateLimitFailure(call[p]))

\* a fetch has met a saturated window
SaturatedWindowSeen ==
  \E p \in Callers :
     /\ call[p].reachedRateLimit
     /\ call[p].windowCount >= DomainOf(call[p]).maxRequestsPerMinute
     /\ call[p].pc = "returned"

\* C5: once the clock is more than 60 seconds past the oldest of the
\* requests that saturated the window, a fetch that reaches the rate-limit
\* step is admitted.
SlidWindowAdmits ==
  \A p \in Callers :
     (call[p].reachedRateLimit /\ call[p].windowSlid) => call[p].admitted

\* a fetch has been admitted after the window slid past a saturation
SlidWindowSeen ==
  \E p \in Callers :
     /\ call[p].reachedRateLimit
     /\ call[p].windowSlid
     /\ call[p].admitted
     /\ call[p].netAttempts >= 1

\* C6: a fetch that starts before the expiry instant of the entry stored for
\* its (url, effective type) returns that entry's response, tagged cache,
\* without a network call.
LiveEntryServedFromCache ==
  \A p \in Callers :
     call[p].liveEntryAtStart =>
        /\ call[p].pc = "returned"
        /\ call[p].cacheHit
        /\ call[p].servedEntry
        /\ call[p].result[1].success
        /\ call[p].result[1].source = "cache"
        /\ call[p].netAttempts = 0

\* a fetch has been served from an entry that had not expired
LiveEntryHitSeen ==
  \E p \in Callers :
     /\ call[p].liveEntryAtStart
     /\ call[p].cacheHit
     /\ call[p].netAttempts = 0

StartsNow(p) == fetches' = fetches + 1 /\ call'[p] # call[p]

\* C7: a fetch that finds its entry past the expiry instant deletes the
\* entry, treats the lookup as a miss and, when the rate limiter admits it,
\* makes a network call; an entry leaves the cache only through such a
\* lookup or through clearCache.
ExpiredEntryRemovedOnLookupOnly ==
  [][ /\ \A p \in Callers :
           (StartsNow(p) /\ call'[p].pastExpiryAtStart) =>
              /\ browsingCache'[call'[p].key[1]] = None
              /\ ~call'[p].cacheHit
              /\ call'[p].reachedRateLimit
              /\ call'[p].admitted =>
                   (call'[p].pc = "fetching" /\ call'[p].netAttempts = 1)
      /\ \A k \in CacheKeys :
           (browsingCache[k] # None /\ browsingCache'[k] = None) =>
              \/ \E p \in Callers :
                    /\ StartsNow(p)
                    /\ call'[p].key = Some(k)
                    /\ call'[p].pastExpiryAtStart
              \/ /\ call' = call
                 /\ \A k2 \in CacheKeys : browsingCache'[k2] = None
    ]_vars

\* a fetch has found its entry expired and has gone to the network
ExpiredEntryRefetchSeen ==
  \E p \in Callers :
     /\ call[p].pastExpiryAtStart
     /\ call[p].admitted
     /\ call[p].netAttempts >= 1

Returned(p) == call[p].pc = "returned"

\* C8: a fetch whose first one or two attempts fail with a retryable
\* condition (429, 5xx, timeout, network error) makes the next attempt after
\* BASE_RETRY_DELAY * 2^(k-1), and returns success after exactly f+1 attempts
\* when attempt f+1 succeeds.
RetryableFailureIsRetried ==
  \A p \in Callers :
     (Returned(p) /\ call[p].netAttempts >= 1) =>
        /\ call[p].result[1].success =>
              /\ call[p].netAttempts = call[p].failed + 1
              /\ call[p].delays =
                    [k \in 1..call[p].failed |-> BASE_RETRY_DELAY * (2 ^ (k - 1))]
        /\ (/\ ~call[p].result[1].success
            /\ call[p].lastFailure # None
            /\ call[p].lastFailure[1].retryable) =>
              call[p].netAttempts = MAX_RETRIES

\* C9: a successful fetch that got its content from the network returns a
\* result tagged live.
LiveFetchTaggedLive ==
  \A p \in Callers :
     (/\ Returned(p)
      /\ call[p].netAttempts >= 1
      /\ call[p].result[1].success) =>
        call[p].result[1].source = "live"

\* C10: a fetch never lets an exception escape: it returns a tagged result,
\* and a failure after network attempts carries the description of the last
\* error observed.
FetchReturnsTaggedResult ==
  \A p \in Callers :
     /\ call[p].pc # "threw"
     /\ Returned(p) =>
          /\ call[p].result # None
          /\ call[p].result[1].success \in BOOLEAN
          /\ call[p].result[1].source \in {"cache", "live"}
          /\ ~call[p].result[1].success => call[p].result[1].error # << >>
          /\ (~call[p].result[1].success /\ call[p].failed >= 1) =>
                call[p].result[1].error =
                   << "Error: " >> \o call[p].lastFailure[1].message

\* a fetch has returned a failure after using up its attempts
RetriesExhaustedSeen ==
  \E p \in Callers :
     /\ Returned(p)
     /\ call[p].netAttempts = MAX_RETRIES
     /\ call[p].failed = MAX_RETRIES
     /\ ~call[p].result[1].success

\* ---------------------------------------------------------------------------
\* Properties of the provider client and of the chat turn
\* ---------------------------------------------------------------------------
\* C11: no browseUrl call and no sendMessage of a provider makes more than
\* three network attempts, whatever the attempts produce.
AttemptsBounded ==
  /\ \A p \in Callers : call[p].netAttempts <= MAX_RETRIES
  /\ turn.fetchAttempts <= MAX_RETRIES
  /\ turn.netAttempts <= API_MAX_RETRIES

\* a turn has ended whose retrieval and whose provider call both used three
\* attempts, the last of which failed too
AllAttemptsUsedSeen ==
  /\ turn.pc = "returned"
  /\ turn.fetchAttempts = MAX_RETRIES
  /\ turn.retrieval = "failed"
  /\ turn.netAttempts = API_MAX_RETRIES
  /\ turn.lastOutcome = "500"

\* C12: a provider attempt answered with an error status other than 429 and
\* 5xx ends sendMessage at once: one network attempt, no backoff delay.
NonRetryableStatusFailsAtOnce ==
  turn.firstOutcome = "401" =>
     /\ turn.pc = "returned"
     /\ turn.netAttempts = 1
     /\ turn.delays = << >>

\* the outcomes of an attempt that are a timeout or a network-layer error
TransportFailures ==
  {"timeout", "Failed to fetch", "NetworkError when attempting to fetch resource."}

\* C13: a provider attempt that times out or fails in the network layer is
\* followed by a backoff delay and a retry while fewer than three attempts
\* have been made.
TransportFailureIsRetried ==
  (/\ turn.pc \in {"delaying", "returned"}
   /\ turn.lastOutcome \in TransportFailures
   /\ turn.netAttempts < API_MAX_RETRIES) =>
     Len(turn.delays) = turn.netAttempts

\* C14: a fetch attempt answered with an error status other than 429 and 5xx
\* ends browseUrl with a failure: no backoff delay and no attempt follows it,
\* so a first attempt so answered is the only one.
FetchNonRetryableStatusFailsAtOnce ==
  \A p \in Callers :
     (/\ call[p].lastFailure # None
      /\ call[p].lastFailure[1].message = HttpErrorMessage(404)) =>
        /\ call[p].pc = "returned"
        /\ call[p].result # None
        /\ ~call[p].result[1].success
        /\ call[p].result[1].error = << "Error: " >> \o HttpErrorMessage(404)
        /\ call[p].netAttempts = call[p].failed
        /\ Len(call[p].delays) = call[p].failed - 1

\* a browseUrl call has ended on the 404 of its first and only attempt
FirstAttemptNotFoundSeen ==
  \E p \in Callers :
     /\ call[p].pc = "returned"
     /\ call[p].lastFailure # None
     /\ call[p].lastFailure[1].message = HttpErrorMessage(404)
     /\ call[p].netAttempts = 1
     /\ call[p].delays = << >>

\* C15: when a turn that was dispatched to a provider has ended, whatever
\* the provider call produced, the stored conversation ends with the user's
\* message followed by an assistant message.
EveryDispatchedTurnAnswered ==
  (turn.pc = "returned" /\ turn.providerCalls # << >>) =>
     LET msgs == MessagesOf(storage)
         n    == Len(msgs)
     IN /\ n >= 2
        /\ msgs[n].role = "assistant"
        /\ msgs[n - 1].role = "user"
        /\ msgs[n - 1].timestamp = turn.message.timestamp

\* C16: a message submitted while the browser is offline adds exactly two
\* messages to the stored conversation, the user's and the offline apology,
\* and no network call is made.
OfflineSubmissionStoresTwo ==
  (turn.pc = "returned" /\ turn.offlineAtSubmit) =>
     LET msgs == MessagesOf(storage)
         n    == Len(turn.before)
     IN /\ Len(msgs) = n + 2
        /\ SubSeq(msgs, 1, n) = turn.before
        /\ msgs[n + 1].role = "user"
        /\ msgs[n + 1].content = turn.message.content
        /\ msgs[n + 2].role = "assistant"
        /\ turn.netAttempts = 0
        /\ turn.retrievals = 0

\* the key of the selected provider is not configured
SelectedKeyMissing ==
  \/ settings.selected = "claude" /\ ~settings.claudeKey
  \/ settings.selected = "openai" /\ ~settings.openaiKey

\* C17: a plain question sent while the key of the selected provider is
\* missing is answered with the configuration prompt; no provider is
\* called and the stored conversation is left as it was.
MissingCredentialPrompts ==
  (turn.pc = "returned" /\ turn.branch = "plain" /\ SelectedKeyMissing) =>
     /\ turn.reply = Some(IF settings.selected = "claude"
                          THEN ClaudeConfigPrompt ELSE OpenAIConfigPrompt)
     /\ turn.providerCalls = << >>
     /\ turn.netAttempts = 0
     /\ MessagesOf(storage) = turn.before

\* a plain question has been answered with the prompt for the OpenAI key
\* while the Claude key was configured
ConfigurationPromptSeen ==
  /\ turn.pc = "returned"
  /\ turn.branch = "plain"
  /\ settings.selected = "openai"
  /\ ~settings.openaiKey
  /\ settings.claudeKey
  /\ turn.reply = Some(OpenAIConfigPrompt)

\* C18: with Claude then OpenAI selected and both keys configured, a turn
\* whose Claude call has failed is sent to OpenAI as well, with one
\* fallback notice.
PrimaryFailureFallsBack ==
  (/\ turn.pc = "returned"
   /\ turn.branch = "plain"
   /\ settings.selected = "both"
   /\ settings.claudeKey /\ settings.openaiKey
   /\ turn.lastOutcome \notin {"", "200"}) =>
     /\ turn.providerCalls =
          << [provider |-> "claude", content |-> turn.message.content],
             [provider |-> "openai", content |-> turn.message.content] >>
     /\ turn.notices = 1

RetrievalErrors ==
  { << "Rate limit exceeded for " >> \o AmazonCom }
  \cup { << "Error: " >> \o HttpErrorMessage(st) : st \in HttpStatuses \ {200} }
  \cup { << "Error: ", e.message >> : e \in NetworkErrors \cup {AbortError} }

\* the notes that stand for retrieved data when the retrieval has failed
FailureNotes ==
  { "Failed to retrieve information: " \o Join(e) : e \in RetrievalErrors }
  \cup { "I tried searching for \"a\" on Amazon but encountered an error: "
         \o "Failed to get Amazon product information: " \o Join(e) :
           e \in RetrievalErrors }

\* C20: when the retrieval of a turn has failed the turn goes on as it does
\* after a successful retrieval: the provider the selection names is called
\* once, with the user's text followed by a failure note (or, its key
\* missing, the configuration prompt is returned).
RetrievalFailureStillDispatches ==
  turn.retrieval = "failed" =>
     LET target == IF settings.selected = "claude" THEN "claude" ELSE "openai"
         hasKey == IF target = "claude" THEN settings.claudeKey
                   ELSE settings.openaiKey
     IN /\ turn.note \in FailureNotes
        /\ IF hasKey
           THEN turn.providerCalls =
                  << [provider |-> target,
                      content |-> Enhanced(turn.message.content, turn.note)] >>
           ELSE /\ turn.providerCalls = << >>
                /\ turn.reply = Some(IF target = "claude" THEN ClaudeConfigPrompt
                                     ELSE OpenAIConfigPrompt)

\* the request to the provider is in flight after a retrieval that the rate
\* limiter has refused
DispatchAfterFailedRetrievalSeen ==
  /\ turn.retrieval = "failed"
  /\ turn.pc = "fetching"
  /\ turn.branch = "amazon"
  /\ turn.note = "I tried searching for \"a\" on Amazon but encountered an error: "
                 \o "Failed to get Amazon product information: "
                 \o "Rate limit exceeded for amazon.com"
  /\ Len(turn.providerCalls) = 1

\* ---------------------------------------------------------------------------
\* Properties of the conversation
\* ---------------------------------------------------------------------------
\* C21: from the append of a turn's user message to its return, every write
\* to the stored conversation is made by that turn, whenever the user
\* submits and whenever the network answers.
TurnWritesDoNotInterleave ==
  [][ \A f \in Frames :
        LET after == IF f = 1 THEN turn' ELSE overlap'
        IN (Frame(f).pc \in {"fetching", "delaying"} /\ storage' # storage) =>
              after # Frame(f) ]_vars

\* a submission was dropped while the second turn waited for its reply, and
\* that turn has ended with its two messages at the end of the conversation
DroppedSubmissionSeen ==
  /\ turnsStarted = 2
  /\ refused
  /\ turn.pc = "returned"
  /\ turn.lastOutcome = "200"
  /\ turn.netAttempts = 2
  /\ Len(MessagesOf(storage)) = Len(turn.before) + 2

\* C22: every browseUrl call and every sendMessage of a provider that has
\* begun its network attempts eventually returns, when every attempt settles
\* or is aborted and every backoff timer fires.
EveryCallReturns ==
  /\ \A p \in Callers :
        (call[p].pc \in {"fetching", "delaying"}) ~> (call[p].pc = "returned")
  /\ (turn.pc \in {"fetching", "delaying"}) ~> (turn.pc = "returned")

\* a turn has returned after a retrieval that used every attempt and a
\* provider call whose third attempt was aborted by the timeout
SlowestTurnReturnedSeen ==
  /\ turn.pc = "returned"
  /\ turn.fetchAttempts = MAX_RETRIES
  /\ turn.netAttempts = API_MAX_RETRIES
  /\ Len(turn.delays) = 2
  /\ turn.lastOutcome = "timeout"

\* C26: a fetch rejected before the network step (invalid or non-HTTP(S)
\* URL, host name not allow-listed, rate limit saturated) makes no network
\* call, records no timestamp in any window and stores nothing in the
\* cache; one rejected by validation or by the allowlist does not reach the
\* cache at all.
EarlyRejectionLeavesNoTrace ==
  [][ \A p \in Callers :
        LET c      == call'[p]
            url    == c.request.url
            early  == \/ ~url.parses
                      \/ url.protocol \notin {"http:", "https:"}
                      \/ \A i \in 1..Len(ALLOWED_DOMAINS) :
                            ~DomainMatches(ALLOWED_DOMAINS[i], url.hostname)
            Times(rl, d) == IF rl[d] = None THEN << >> ELSE rl[d][1].requestTimes
            full   == /\ c.reachedRateLimit
                      /\ c.windowCount >= DomainOf(c).maxRequestsPerMinute
        IN (StartsNow(p) /\ (early \/ full)) =>
             /\ c.pc = "returned"
             /\ ~c.result[1].success
             /\ c.netAttempts = 0
             /\ admitLog' = admitLog
             /\ \A d \in DomainNames :
                   Times(rateLimits', d) \in
                     { Times(rateLimits, d),
                       RecentTimes(Times(rateLimits, d), now) }
             /\ \A k \in CacheKeys :
                   browsingCache'[k] \in { None, browsingCache[k] }
             /\ early => /\ browsingCache' = browsingCache
                          /\ rateLimits' = rateLimits
                          /\ c.key = None
                          /\ ~c.cacheHit
    ]_vars

\* a fetch whose cache entry had expired has been rejected by a saturated
\* window: the entry is gone and nothing was recorded or fetched
RejectedAfterExpiredLookupSeen ==
  \E p \in Callers :
     /\ call[p].pc = "returned"
     /\ call[p].pastExpiryAtStart
     /\ call[p].reachedRateLimit /\ ~call[p].admitted
     /\ call[p].netAttempts = 0
     /\ call[p].result = Some(RateLimitFailure(call[p]))
     /\ browsingCache[call[p].key[1]] = None
     /\ Len(admitLog) = MaxPrior + 1

\* C27: a fetch served from the cache records no timestamp in the domain's
\* window and does not reach the rate-limit check; a fetch that finds a
\* live entry is served from it even when the window is saturated.
CacheHitBypassesRateLimit ==
  [][ \A p \in Callers :
        /\ (StartsNow(p) /\ call'[p].cacheHit) =>
              /\ admitLog' = admitLog
              /\ rateLimits' = rateLimits
              /\ ~call'[p].reachedRateLimit
              /\ call'[p].netAttempts = 0
        /\ (/\ StartsNow(p)
            /\ call'[p].liveEntryAtStart
            /\ call'[p].windowCount >= DomainOf(call'[p]).maxRequestsPerMinute) =>
              /\ call'[p].cacheHit
              /\ call'[p].pc = "returned"
              /\ call'[p].servedEntry
              /\ call'[p].result[1].source = "cache"
    ]_vars

\* a fetch has been served from a live entry while the window of its domain
\* was saturated
HitUnderSaturationSeen ==
  \E p \in Callers :
     /\ call[p].pc = "returned"
     /\ call[p].liveEntryAtStart
     /\ call[p].windowCount >= DomainOf(call[p]).maxRequestsPerMinute
     /\ call[p].cacheHit
     /\ call[p].result[1].success
     /\ Len(admitLog) = MaxPrior + 1

\* C28: the entry stored after a successful live fetch expires after the
\* caller's cache time when one is given and after the default cache time
\* otherwise; either way its expiry instant is finite.
CachedEntryExpiresAfterTtl ==
  [][ \A p \in Callers :
        (/\ call[p].pc = "fetching"
         /\ call'[p].pc = "returned"
         /\ call'[p].result[1].success) =>
           LET given == call[p].request.cacheTime
               ttl   == IF given # None THEN given[1] ELSE DEFAULT_CACHE_TIME
               entry == browsingCache'[call[p].key[1]]
           IN /\ entry # None
              /\ entry[1].expiresAt = Num(now + ttl * 1000)
    ]_vars

\* C29: a valid URL passes the allowlist exactly when its host name equals
\* the domain of a policy entry, or the entry permits subdomains and the
\* host name ends with '.' and that domain; every other URL is rejected, a
\* host name that only ends with the letters of a domain and a subdomain of
\* an entry that forbids subdomains among them.
AllowlistMatchesExactOrSubdomain ==
  \A p \in Callers :
     LET c == call[p]
         url == c.request.url
         h == url.hostname
         \* h is a domain of the policy, or ends with '.' and a domain that
         \* permits subdomains
         listed ==
           \E i \in 1..Len(ALLOWED_DOMAINS) :
              LET dom == ALLOWED_DOMAINS[i].domain
              IN \/ h = dom
                 \/ /\ ALLOWED_DOMAINS[i].allowSubdomains
                    /\ Len(h) >= Len(dom) + 1
                    /\ SubSeq(h, Len(h) - Len(dom), Len(h)) = << "." >> \o dom
         notInList ==
           FailureResponse(url.text, << "URL not in allowed domains list" >>)
     IN (c.pc # "idle" /\ url.parses /\ url.protocol \in {"http:", "https:"}) =>
          /\ listed <=> c.domain # 0
          /\ c.domain = 0 =>
                /\ c.pc = "returned"
                /\ c.result = Some(notInList)
                /\ c.netAttempts = 0
          /\ c.domain # 0 => c.result # Some(notInList)
          /\ c.request.url.hostname \in
                { << "not", "amazon", ".", "com" >>,
                  << "help", ".", "support", ".", "apple", ".", "com" >>,
                  << "example", ".", "org" >> } => c.domain = 0
          /\ c.request.url.hostname \in
                { << "www", ".", "amazon", ".", "com" >>, SupportAppleCom }
                  => c.domain # 0

\* a URL whose host name ends with the letters of an allowed domain, without
\* the dot before them, has been rejected
BareSuffixHostRejectedSeen ==
  \E p \in Callers :
     /\ call[p].request.url.hostname = << "not", "amazon", ".", "com" >>
     /\ call[p].pc = "returned"
     /\ call[p].result =
          Some(FailureResponse(call[p].request.url.text,
                               << "URL not in allowed domains list" >>))

\* C30: the effective extraction type is the requested one when the matched
\* policy entry permits it and "full" otherwise, and the cache key and the
\* extraction both use it: a request with a type that is not permitted is
\* served the entry a request without a type wrote for the URL, never one
\* written under a permitted type.
EffectiveTypeKeysCacheAndExtraction ==
  \A p \in Callers :
     LET c == call[p]
         \* the policy entry lists the type the caller asked for
         permitted ==
           /\ c.request.extractionType # None
           /\ c.request.extractionType[1] \in
                { DomainOf(c).extractionTypes[i] :
                    i \in 1..Len(DomainOf(c).extractionTypes) }
     IN (c.pc # "idle" /\ c.domain # 0) =>
          /\ c.type = (IF permitted
                       THEN c.request.extractionType[1] ELSE "full")
          /\ c.key = Some(<< c.request.url.text, ":", c.type >>)
          /\ (c.pc = "returned" /\ c.result[1].success) =>
                c.result[1].content = << "extracted", c.type, c.request.url.text >>
          /\ (c.cacheHit /\ ~permitted) =>
                c.result[1].content = << "extracted", "full", c.request.url.text >>

\* a request for a type its domain does not permit has been served from the
\* entry written under "full"
UnpermittedTypeServedGenericEntrySeen ==
  \E p \in Callers :
     /\ call[p].request.extractionType = Some("article")
     /\ call[p].domain = 1
     /\ call[p].cacheHit
     /\ call[p].pc = "returned"
     /\ call[p].result[1].content[2] = "full"
     /\ browsingCache[<< call[p].request.url.text, ":", "full" >>] # None

\* C36: only the results of successful live fetches are stored in the
\* cache: every entry holds a result with success = true, and an entry is
\* created or overwritten only by a fetch that returns such a result.
OnlySuccessesCached ==
  [][ \A k \in CacheKeys :
        /\ browsingCache'[k] # None => browsingCache'[k][1].response.success
        /\ (browsingCache'[k] # None /\ browsingCache'[k] # browsingCache[k]) =>
              \E p \in Callers :
                 /\ call[p].pc = "fetching"
                 /\ call[p].key = Some(k)
                 /\ call'[p].pc = "returned"
                 /\ call'[p].result[1].success
                 /\ browsingCache'[k][1].response = call'[p].result[1]
    ]_vars

\* a fetch has failed on an HTTP error while the cache held the result of an
\* earlier fetch, and has left no entry of its own
FailedFetchLeftNoEntrySeen ==
  \E p \in Callers :
     /\ call[p].pc = "returned"
     /\ ~call[p].result[1].success
     /\ call[p].netAttempts >= 1
     /\ call[p].failed >= 1
     /\ browsingCache[call[p].key[1]] = None
     /\ \E k \in CacheKeys : browsingCache[k] # None

\* C37: a fetch admitted by the rate limiter adds exactly one timestamp,
\* the time of admission, to the window of its domain; the network attempts,
\* the backoff delays and the return of the fetch leave every window as it
\* is, whatever their number and outcome.
OneTimestampPerAdmittedFetch ==
  [][ LET Times(rl, d) == IF rl[d] = None THEN << >> ELSE rl[d][1].requestTimes
      IN /\ \A p \in Callers :
              (StartsNow(p) /\ call'[p].admitted) =>
                 LET d == DomainOf(call'[p]).domain
                 IN /\ Times(rateLimits', d) =
                         Append(RecentTimes(Times(rateLimits, d), now), now)
                    /\ \A e \in DomainNames \ {d} :
                          Times(rateLimits', e) = Times(rateLimits, e)
         /\ (\A p \in Callers : ~StartsNow(p)) => rateLimits' = rateLimits
    ]_vars

\* the first fetch has been admitted, has made three network attempts and
\* has failed: the window of its domain holds one timestamp
ThreeAttemptsOneTimestampSeen ==
  \E p \in Callers :
     /\ call[p].pc = "returned"
     /\ call[p].admitted
     /\ call[p].netAttempts = MAX_RETRIES
     /\ call[p].failed = MAX_RETRIES
     /\ ~call[p].result[1].success
     /\ fetches = 1
     /\ Len(rateLimits[DomainOf(call[p]).domain][1].requestTimes) = 1

\* C38: within one fetch a backoff delay is waited only between two network
\* attempts: a fetch that waits has an attempt left to make, and a fetch that
\* has returned after n network attempts has waited n - 1 delays.
BackoffOnlyBetweenAttempts ==
  \A p \in Callers :
     /\ call[p].pc = "delaying" => call[p].netAttempts < MAX_RETRIES
     /\ (call[p].pc = "returned" /\ call[p].netAttempts >= 1) =>
           Len(call[p].delays) = call[p].netAttempts - 1

\* ---------------------------------------------------------------------------
\* Properties of overlapping fetches
\* ---------------------------------------------------------------------------
\* C23: however overlapping browseUrl calls interleave, no recorded timestamp
\* is lost (the timestamps of a domain's window that lie in the trailing 60
\* seconds are those of all the requests admitted in them), and the admitted
\* requests with timestamps in any trailing 60-second window never exceed
\* the domain's ceiling.
WindowUpdatesSerialized ==
  \A i \in 1..Len(ALLOWED_DOMAINS) :
     LET d       == ALLOWED_DOMAINS[i]
         times   == AdmittedTimes(admitLog, d.domain)
         tracker == rateLimits[d.domain]
         window  == IF tracker = None THEN << >> ELSE tracker[1].requestTimes
     IN /\ RecentTimes(window, now) = RecentTimes(times, now)
        /\ \A j \in 1..Len(times) :
              CountInWindow(times, times[j]) <= d.maxRequestsPerMinute

\* while an admitted fetch waits for the network, a second one to the same
\* domain has found the window at its ceiling and has been rejected
OverlappingFetchRejectedSeen ==
  \E p \in Racers, q \in Racers :
     /\ p # q
     /\ call[p].pc \in {"fetching", "delaying"} /\ call[p].admitted
     /\ call[q].pc = "returned" /\ call[q].reachedRateLimit /\ ~call[q].admitted
     /\ call[q].domain = call[p].domain
     /\ call[q].windowCount = DomainOf(call[q]).maxRequestsPerMinute
     /\ Len(admitLog) = MaxPrior + 1

\* C39: at most one live fetch is in flight per cache key: no two
\* overlapping calls wait for the network response of the same (url,
\* effective type), each admitted by the rate limiter on its own.
SingleFlightPerKey ==
  \A p, q \in Racers :
     (/\ p # q
      /\ call[p].pc = "fetching" /\ call[q].pc = "fetching"
      /\ call[p].admitted /\ call[q].admitted) =>
        call[p].key # call[q].key

\* ---------------------------------------------------------------------------
\* Properties of the error texts
\* ---------------------------------------------------------------------------
\* C31: mapping a provider failure to its apology text leaves the stored
\* conversation as it was, in both providers: a turn that a provider has
\* answered with an apology text has stored no assistant message with it.
ErrorMappingLeavesStoreAlone ==
  LET texts == { OfflineText, TimeoutText, NetworkText, RateLimitText,
                 AuthText, GenericErrorText }
      stored == MessagesOf(storage)
  IN (/\ turn.pc = "returned"
      /\ turn.providerCalls # << >>
      /\ turn.reply[1] \in texts) =>
        \A i \in 1..Len(stored) :
           i > Len(turn.before) =>
              ~(stored[i].role = "assistant" /\ stored[i].content = turn.reply[1])

\* C32: in each provider the six failures (offline, timeout, network error,
\* rate limited, authentication failed, other api error) are given six
\* pairwise distinct apology texts.
ApologiesPairwiseDistinct ==
  (/\ lastOp.op = "handleError"
   /\ lastOp.earlier # None
   /\ lastOp.earlier[1].provider = lastOp.provider
   /\ lastOp.earlier[1].failure # lastOp.failure) =>
     lastOp.earlier[1].text # lastOp.text

\* ---------------------------------------------------------------------------
\* Properties of the missing credential
\* ---------------------------------------------------------------------------
\* C40: a turn of any kind that is answered with the configuration prompt,
\* the key of the selected provider being missing, has made no outbound
\* request: no network attempt of a retrieval fetch and no provider call.
NoRequestBeforeConfigurationPrompt ==
  LET missing == \/ settings.selected = "claude" /\ ~settings.claudeKey
                 \/ settings.selected = "openai" /\ ~settings.openaiKey
                 \/ ~settings.claudeKey /\ ~settings.openaiKey
  IN (/\ turn.pc = "returned"
      /\ missing
      /\ turn.reply \in {Some(ClaudeConfigPrompt), Some(OpenAIConfigPrompt)}) =>
        /\ turn.fetchAttempts = 0
        /\ turn.providerCalls = << >>
        /\ turn.netAttempts = 0

====
